---- MODULE Spec2Model ----
(***************************************************************************)
(* Error taxonomy and response-envelope layer of the Hono server           *)
(* (apps/server): Problem Registry, AppError, Validation Adapter, Problem  *)
(* Converter, Response Envelope Builder and the boundary handlers.         *)
(*                                                                         *)
(* Conventions                                                             *)
(*  - an optional JS value is a sequence of length 0 (undefined) or 1;     *)
(*  - strings that the code inspects character by character (E-codes,      *)
(*    field-path segments, JSON pointers, traceparent headers) are         *)
(*    sequences of one-character strings; all other strings are atoms;     *)
(*  - a JS value whose dynamic type matters carries its type in field t;   *)
(*  - a call that can throw yields Return(v) or Throw(e).                  *)
(***************************************************************************)
EXTENDS Integers, Sequences, FiniteSets, TLC

VARIABLES
  env,       \* process environment: NODE_ENV and API_BASE_URL (fixed after start)
  pc,        \* position of the request in flight
  req,       \* the request context c: method, path, headers, context variables
  err,       \* the value thrown while handling, as handed to app.onError
  converted, \* the Problem Converter's call for the request: its input and outcome
  outcome,   \* what the route handler was given or returned (ok data, hook result, checks)
  response,  \* the HTTP response: status, headers, body
  log,       \* log lines emitted for the request, in order
  events,    \* order of the layer's steps for the request
  fnIn,      \* input of a pure function under check
  fnOut      \* its result

vars == <<env, pc, req, err, converted, outcome, response, log, events, fnIn, fnOut>>

-----------------------------------------------------------------------------
(* Generic helpers                                                         *)

Undefined == <<>>
Some(v) == <<v>>
IsSet(o) == o # <<>>
\* JS  a ?? b  on an optional a
Nullish(o, dflt) == IF o # <<>> THEN o[1] ELSE dflt

Return(v) == [threw |-> FALSE, value |-> v]
Throw(e) == [threw |-> TRUE, error |-> e]

\* all sequences over S of length 0..n
SeqsUpTo(S, n) == UNION {[1..k -> S] : k \in 0..n}

RECURSIVE ReplaceAll(_, _, _)
\* String.prototype.replace(/ch/g, rep) on a character sequence
ReplaceAll(s, ch, rep) ==
  IF s = <<>> THEN <<>>
  ELSE (IF Head(s) = ch THEN rep ELSE <<Head(s)>>) \o ReplaceAll(Tail(s), ch, rep)

RECURSIVE Join(_, _)
\* Array.prototype.join(sep) on a sequence of character sequences
Join(parts, sep) ==
  IF parts = <<>> THEN <<>>
  ELSE IF Len(parts) = 1 THEN parts[1]
  ELSE parts[1] \o sep \o Join(Tail(parts), sep)

DigitChars == <<"0", "1", "2", "3", "4", "5", "6", "7", "8", "9">>
Digits == {DigitChars[i] : i \in 1..10}

RECURSIVE NumToStr(_)
\* String(n) for a non-negative integer n
NumToStr(n) ==
  IF n < 10 THEN <<DigitChars[n + 1]>>
  ELSE NumToStr(n \div 10) \o <<DigitChars[(n % 10) + 1]>>

-----------------------------------------------------------------------------
(* Problem Registry  (errors/problem-registry)                             *)

ProblemKeys ==
  {"validation_error", "not_found", "unauthorized", "forbidden", "conflict",
   "bad_request", "payload_too_large", "rate_limited", "bad_gateway",
   "gateway_timeout", "internal_error", "service_unavailable"}

LogLevels == {"debug", "info", "warn", "error"}

\* a definition stored with its URI suffix in the key field
DefKeyedBySuffix(k, sfx, ttl, st, cd, lvl, exp) ==
  [key |-> sfx, suffix |-> sfx, title |-> ttl, status |-> st, code |-> cd,
   errorType |-> k, logLevel |-> lvl, exposeDetail |-> exp]

Def(k, sfx, ttl, st, cd, lvl, exp) ==
  [key |-> k, suffix |-> sfx, title |-> ttl, status |-> st, code |-> cd,
   errorType |-> k, logLevel |-> lvl, exposeDetail |-> exp]

ProblemRegistry ==
  ("validation_error" :> Def("validation_error", "validation-error", "Validation failed",
                             422, <<"E", "1", "0", "0", "1">>, "info", TRUE)) @@
  ("not_found" :> Def("not_found", "not-found", "Not found",
                      404, <<"E", "1", "4", "0", "4">>, "info", TRUE)) @@
  ("unauthorized" :> Def("unauthorized", "unauthorized", "Unauthorized",
                         401, <<"E", "1", "4", "0", "1">>, "info", TRUE)) @@
  ("forbidden" :> Def("forbidden", "forbidden", "Forbidden",
                      403, <<"E", "1", "4", "0", "3">>, "info", TRUE)) @@
  ("conflict" :> Def("conflict", "conflict", "Conflict",
                     409, <<"E", "1", "4", "0", "9">>, "info", TRUE)) @@
  ("bad_request" :> Def("bad_request", "bad-request", "Bad request",
                        400, <<"E", "1", "4", "0", "0">>, "info", TRUE)) @@
  ("payload_too_large" :> Def("payload_too_large", "payload-too-large", "Payload too large",
                              413, <<"E", "1", "4", "1", "3">>, "warn", TRUE)) @@
  ("rate_limited" :> Def("rate_limited", "rate-limited", "Too many requests",
                         429, <<"E", "1", "4", "2", "9">>, "warn", TRUE)) @@
  ("bad_gateway" :> Def("bad_gateway", "bad-gateway", "Bad gateway",
                        502, <<"E", "1", "5", "0", "2">>, "error", TRUE)) @@
  ("gateway_timeout" :> Def("gateway_timeout", "gateway-timeout", "Gateway timeout",
                            504, <<"E", "1", "5", "0", "4">>, "error", TRUE)) @@
  ("service_unavailable" :> Def("service_unavailable", "service-unavailable", "Service unavailable",
                                503, <<"E", "1", "5", "0", "3">>, "error", FALSE)) @@
  ("internal_error" :> Def("internal_error", "internal-error", "Internal error",
                           500, <<"E", "1", "5", "0", "0">>, "error", FALSE))

\* getProblemBaseUrl: API_BASE_URL if configured (truthy), else the default
getProblemBaseUrl(e) ==
  IF IsSet(e.API_BASE_URL) /\ e.API_BASE_URL[1] # ""
  THEN e.API_BASE_URL[1] \o "/problems"
  ELSE "https://api.template.local/problems"

problemTypeUri(e, key) == getProblemBaseUrl(e) \o "/" \o ProblemRegistry[key].suffix

\* statusToKey with the 413 case lost
statusToKeyWithout413(status) ==
  CASE status = 400 -> "bad_request"
    [] status = 401 -> "unauthorized"
    [] status = 403 -> "forbidden"
    [] status = 404 -> "not_found"
    [] status = 409 -> "conflict"
    [] status = 422 -> "validation_error"
    [] status = 429 -> "rate_limited"
    [] status = 502 -> "bad_gateway"
    [] status = 503 -> "service_unavailable"
    [] status = 504 -> "gateway_timeout"
    [] OTHER -> "internal_error"

statusToKey(status) ==
  CASE status = 400 -> "bad_request"
    [] status = 401 -> "unauthorized"
    [] status = 403 -> "forbidden"
    [] status = 404 -> "not_found"
    [] status = 409 -> "conflict"
    [] status = 413 -> "payload_too_large"
    [] status = 422 -> "validation_error"
    [] status = 429 -> "rate_limited"
    [] status = 502 -> "bad_gateway"
    [] status = 503 -> "service_unavailable"
    [] status = 504 -> "gateway_timeout"
    [] OTHER -> "internal_error"

getProblemDef(key) == ProblemRegistry[key]

getProblemDefByStatus(status) == ProblemRegistry[statusToKey(status)]

-----------------------------------------------------------------------------
(* Domain code tables  (errors/domain-codes)                               *)

\* the literal "E" followed by the four digits of n
ECode(n) == <<"E">> \o NumToStr(n)

\* AUTH_CODES with INSUFFICIENT_PERMISSIONS reusing the registry's E1403
AUTH_CODES_Colliding ==
  <<<<"INVALID_CREDENTIALS", ECode(2001)>>,
     <<"TOKEN_EXPIRED", ECode(2002)>>,
     <<"INVALID_CLIENT", ECode(2003)>>,
     <<"INVALID_SCOPE", ECode(2004)>>,
     <<"INVALID_GRANT", ECode(2005)>>,
     <<"UNSUPPORTED_GRANT", ECode(2006)>>,
     <<"INVALID_REFRESH_TOKEN", ECode(2007)>>,
     <<"ACCOUNT_INACTIVE", ECode(2008)>>,
     <<"ACCOUNT_LOCKED", ECode(2009)>>,
     <<"INSUFFICIENT_PERMISSIONS", ECode(1403)>>,
     <<"AUTH_CONTEXT_MISSING", ECode(2011)>>>>

\* each table lists its properties in source order as <<name, code>>
AUTH_CODES ==
  <<<<"INVALID_CREDENTIALS", ECode(2001)>>,
     <<"TOKEN_EXPIRED", ECode(2002)>>,
     <<"INVALID_CLIENT", ECode(2003)>>,
     <<"INVALID_SCOPE", ECode(2004)>>,
     <<"INVALID_GRANT", ECode(2005)>>,
     <<"UNSUPPORTED_GRANT", ECode(2006)>>,
     <<"INVALID_REFRESH_TOKEN", ECode(2007)>>,
     <<"ACCOUNT_INACTIVE", ECode(2008)>>,
     <<"ACCOUNT_LOCKED", ECode(2009)>>,
     <<"INSUFFICIENT_PERMISSIONS", ECode(2010)>>,
     <<"AUTH_CONTEXT_MISSING", ECode(2011)>>>>

SIGNING_CODES ==
  <<<<"DOCUMENT_TOO_LARGE", ECode(3001)>>,
     <<"INVALID_BASE64", ECode(3002)>>,
     <<"CERTIFICATE_ERROR", ECode(3003)>>,
     <<"UNSUPPORTED_FORMAT", ECode(3004)>>,
     <<"SIGNATURE_INVALID", ECode(3005)>>,
     <<"ALREADY_SIGNED", ECode(3006)>>,
     <<"WORKFLOW_ERROR", ECode(3007)>>,
     <<"TIMESTAMP_ERROR", ECode(3008)>>,
     <<"HASH_MISMATCH", ECode(3009)>>,
     <<"INVALID_REQUEST_TYPE", ECode(3010)>>>>

COMPANY_CODES ==
  <<<<"COMPANY_NOT_FOUND", ECode(4001)>>,
     <<"ENVIRONMENT_NOT_FOUND", ECode(4002)>>,
     <<"COMPANY_EXISTS", ECode(4003)>>,
     <<"ENVIRONMENT_EXISTS", ECode(4004)>>,
     <<"INVALID_COMPANY_CONFIG", ECode(4005)>>,
     <<"COMPANY_INACTIVE", ECode(4006)>>,
     <<"ENVIRONMENT_INACTIVE", ECode(4007)>>,
     <<"COMPANY_NOT_FOUND_BY_PROCESS", ECode(4008)>>,
     <<"PARTNER_NOT_FOUND_BY_TAXID", ECode(4009)>>,
     <<"SENDER_CONFIG_NOT_FOUND", ECode(4010)>>,
     <<"RECEIVER_CONFIG_NOT_FOUND", ECode(4011)>>>>

SOAP_CODES ==
  <<<<"CONNECTION_FAILED", ECode(5001)>>,
     <<"TIMEOUT", ECode(5002)>>,
     <<"INVALID_RESPONSE", ECode(5003)>>,
     <<"SOAP_FAULT", ECode(5004)>>,
     <<"WSDL_ERROR", ECode(5005)>>,
     <<"CERT_CHAIN_ERROR", ECode(5006)>>,
     <<"ENDPOINT_UNAVAILABLE", ECode(5007)>>,
     <<"SEND_CONTRACT_FAILED", ECode(5008)>>,
     <<"RETURN_SIGNED_FAILED", ECode(5009)>>,
     <<"CLIENT_CREATE_FAILED", ECode(5010)>>,
     <<"CANCEL_CONTRACT_FAILED", ECode(5011)>>,
     <<"RETURN_DECLINED_FAILED", ECode(5012)>>>>

\* Object.values(table)
ObjectValues(table) == [i \in 1..Len(table) |-> table[i][2]]

-----------------------------------------------------------------------------
(* JSON Pointer Encoder  (lib/json-pointer)                                *)

\* a path segment: string, number or symbol (zod 4 paths are PropertyKey[])
StrSeg(chars) == [t |-> "string", s |-> chars]
NumSeg(n) == [t |-> "number", n |-> n]
SymSeg == [t |-> "symbol"]

\* String(token) for a string or number segment
SegToString(seg) == IF seg.t = "number" THEN NumToStr(seg.n) ELSE seg.s

\* escapeJsonPointerToken leaving "~" as it is
escapeJsonPointerTokenSlashOnly(token) ==
  ReplaceAll(SegToString(token), "/", <<"~", "1">>)

\* escapeJsonPointerToken with the two replacements in the other order
escapeJsonPointerTokenSlashFirst(token) ==
  ReplaceAll(ReplaceAll(SegToString(token), "/", <<"~", "1">>), "~", <<"~", "0">>)

escapeJsonPointerToken(token) ==
  ReplaceAll(ReplaceAll(SegToString(token), "~", <<"~", "0">>), "/", <<"~", "1">>)

\* encodeURIComponent leaves A-Z a-z 0-9 - _ . ! ~ * ' ( ) alone and
\* percent-encodes the rest; the five replace() calls restore nothing it encoded
PercentEncodeChar(ch) ==
  CASE ch = " " -> <<"%", "2", "0">>
    [] ch = "%" -> <<"%", "2", "5">>
    [] ch = "#" -> <<"%", "2", "3">>
    [] ch = "?" -> <<"%", "3", "F">>
    [] ch = "/" -> <<"%", "2", "F">>
    [] OTHER -> <<ch>>

RECURSIVE PercentEncoded(_)
PercentEncoded(str) ==
  IF str = <<>> THEN <<>>
  ELSE PercentEncodeChar(Head(str)) \o PercentEncoded(Tail(str))

\* a UTF-16 surrogate with no partner, which encodeURIComponent refuses
LoneSurrogate == "\\uD800"
URIError == [t |-> "Error", message |-> "URI malformed"]

percentEncodeForFragment(str) ==
  IF \E i \in 1..Len(str) : str[i] = LoneSurrogate
  THEN Throw(URIError)
  ELSE Return(PercentEncoded(str))

\* toJsonPointerFragment answering "#/" for a path without segments
toJsonPointerFragmentRootSlash(path, uriEncode) ==
  LET validPath == SelectSeq(path, LAMBDA seg : seg.t # "symbol")
      escaped == [i \in 1..Len(validPath) |-> escapeJsonPointerToken(validPath[i])]
      encoded == [i \in 1..Len(escaped) |-> percentEncodeForFragment(escaped[i])]
  IN IF uriEncode
     THEN IF \E i \in 1..Len(encoded) : encoded[i].threw
          THEN Throw(URIError)
          ELSE Return(<<"#", "/">> \o Join([i \in 1..Len(encoded) |-> encoded[i].value], <<"/">>))
     ELSE Return(<<"#", "/">> \o Join(escaped, <<"/">>))

\* toJsonPointerFragment percent-encoding each segment before escaping it
toJsonPointerFragmentEncodeFirst(path, uriEncode) ==
  LET validPath == SelectSeq(path, LAMBDA seg : seg.t # "symbol")
      escaped == [i \in 1..Len(validPath) |-> escapeJsonPointerToken(validPath[i])]
      encoded == [i \in 1..Len(validPath) |->
                    percentEncodeForFragment(SegToString(validPath[i]))]
  IN IF Len(validPath) = 0 THEN Return(<<"#">>)
     ELSE IF uriEncode
     THEN IF \E i \in 1..Len(encoded) : encoded[i].threw
          THEN Throw(URIError)
          ELSE Return(<<"#", "/">> \o
                 Join([i \in 1..Len(encoded) |->
                         escapeJsonPointerToken(StrSeg(encoded[i].value))], <<"/">>))
     ELSE Return(<<"#", "/">> \o Join(escaped, <<"/">>))

toJsonPointerFragment(path, uriEncode) ==
  LET validPath == SelectSeq(path, LAMBDA seg : seg.t # "symbol")
      escaped == [i \in 1..Len(validPath) |-> escapeJsonPointerToken(validPath[i])]
      encoded == [i \in 1..Len(escaped) |-> percentEncodeForFragment(escaped[i])]
  IN IF Len(validPath) = 0 THEN Return(<<"#">>)
     ELSE IF uriEncode
     THEN IF \E i \in 1..Len(encoded) : encoded[i].threw
          THEN Throw(URIError)
          ELSE Return(<<"#", "/">> \o Join([i \in 1..Len(encoded) |-> encoded[i].value], <<"/">>))
     ELSE Return(<<"#", "/">> \o Join(escaped, <<"/">>))

-----------------------------------------------------------------------------
(* AppError  (errors/app-error)                                            *)

\* FieldError: every member optional except message
FieldError(field, pointer, message, code, reason) ==
  [field |-> field, pointer |-> pointer, message |-> message, code |-> code,
   reason |-> reason]

NoOpts == [detail |-> Undefined, errors |-> Undefined, statusOverride |-> Undefined,
           codeOverride |-> Undefined]

\* constructor(key, message, opts): errors defaults to [] (opts.errors ?? [])
AppError(key, message, opts) ==
  [t |-> "AppError", key |-> key, message |-> message, detail |-> opts.detail,
   errors |-> Nullish(opts.errors, <<>>), statusOverride |-> opts.statusOverride,
   codeOverride |-> opts.codeOverride]

WithDetail(d) == [NoOpts EXCEPT !.detail = Some(d)]

AppErrorValidation(detail, errors) ==
  AppError("validation_error", "Validation failed",
           [NoOpts EXCEPT !.detail = Some(detail), !.errors = Some(errors)])

\* identifier is optional; an empty identifier is falsy
AppErrorNotFound(resource, identifier) ==
  AppError("not_found", "Resource not found",
           WithDetail(IF IsSet(identifier) /\ identifier[1] # ""
                      THEN resource \o " with identifier '" \o identifier[1] \o "' was not found"
                      ELSE resource \o " was not found"))

\* default parameters apply when the argument is undefined
AppErrorUnauthorized(detail) ==
  AppError("unauthorized", "Unauthorized", WithDetail(Nullish(detail, "Authentication required")))
AppErrorForbidden(detail) ==
  AppError("forbidden", "Forbidden", WithDetail(Nullish(detail, "Access denied")))
AppErrorConflict(detail) == AppError("conflict", "Conflict", WithDetail(detail))
AppErrorBadRequest(detail) == AppError("bad_request", "Bad request", WithDetail(detail))
AppErrorInternal(detail) == AppError("internal_error", "Internal error", WithDetail(detail))
AppErrorServiceUnavailable(service) ==
  AppError("service_unavailable", "Service unavailable",
           WithDetail("Service '" \o service \o "' is currently unavailable"))
AppErrorRateLimited(detail) ==
  AppError("rate_limited", "Too many requests", WithDetail(Nullish(detail, "Too many requests")))
AppErrorInvalidCredentials ==
  AppError("unauthorized", "Invalid credentials",
           [NoOpts EXCEPT !.detail = Some("The provided credentials are invalid"),
                          !.codeOverride = Some(<<"E", "2", "0", "0", "1">>)])
AppErrorTokenExpired ==
  AppError("unauthorized", "Token expired",
           [NoOpts EXCEPT !.detail = Some("The access token has expired"),
                          !.codeOverride = Some(<<"E", "2", "0", "0", "2">>)])
AppErrorCompanyNotFound(identifier) ==
  AppError("not_found", "Company not found",
           [NoOpts EXCEPT !.detail = Some("Company with identifier '" \o identifier \o "' was not found"),
                          !.codeOverride = Some(<<"E", "4", "0", "0", "1">>)])
AppErrorEnvironmentNotFound(identifier) ==
  AppError("not_found", "Environment not found",
           [NoOpts EXCEPT !.detail = Some("Environment with identifier '" \o identifier \o "' was not found"),
                          !.codeOverride = Some(<<"E", "4", "0", "0", "2">>)])

-----------------------------------------------------------------------------
(* Validation Adapter  (lib/validation-hook, lib/problem)                  *)

DEFAULT_VALIDATION_CODE == <<"E", "1", "0", "0", "1">>

\* /^E\d{4}$/.test(s)
ECODE_PATTERN(s) == Len(s) = 5 /\ s[1] = "E" /\ \A i \in 2..5 : s[i] \in Digits

\* a zod issue; params is the optional metadata object of a custom issue and
\* params.ecode, when present, is any JS value
Issue(path, message, code, params) ==
  [path |-> path, message |-> message, code |-> code, params |-> params]

\* extractEcodeFromParams with the format check lost
extractEcodeUnchecked(issue) ==
  IF ~IsSet(issue.params) THEN Undefined
  ELSE IF IsSet(issue.params[1].ecode) /\ issue.params[1].ecode[1].t = "string"
       THEN Some(issue.params[1].ecode[1].s)
       ELSE Undefined

extractEcodeFromParams(issue) ==
  IF ~IsSet(issue.params) THEN Undefined
  ELSE LET ecode == issue.params[1].ecode
       IN IF IsSet(ecode) /\ ecode[1].t = "string" /\ ECODE_PATTERN(ecode[1].s)
          THEN Some(ecode[1].s)
          ELSE Undefined

mapToECode(issue) ==
  LET markerCode == extractEcodeFromParams(issue)
  IN IF IsSet(markerCode) THEN markerCode[1] ELSE DEFAULT_VALIDATION_CODE

\* Array.prototype.join applies ToString to each element, which throws a
\* TypeError on a symbol
TypeErrorSymbol == [t |-> "Error", message |-> "Cannot convert a Symbol value to a string"]
JoinThrows(path) == \E i \in 1..Len(path) : path[i].t = "symbol"
PathJoin(path) == Join([i \in 1..Len(path) |-> SegToString(path[i])], <<".">>)

IssueToFieldError(issue, code) ==
  FieldError(IF Len(issue.path) # 0 THEN Some(PathJoin(issue.path)) ELSE Undefined,
             Some(toJsonPointerFragment(issue.path, FALSE).value),
             issue.message, Some(code), Some(issue.code))

\* the default adapter with the marker read after all
zodToFieldErrorsReadingMarker(issues) ==
  IF \E i \in 1..Len(issues) : JoinThrows(issues[i].path)
  THEN Throw(TypeErrorSymbol)
  ELSE Return([i \in 1..Len(issues) |-> IssueToFieldError(issues[i], mapToECode(issues[i]))])

\* zodToFieldErrors (lib/problem): issues.map(...), every code E1001
zodToFieldErrors(issues) ==
  IF \E i \in 1..Len(issues) : JoinThrows(issues[i].path)
  THEN Throw(TypeErrorSymbol)
  ELSE Return([i \in 1..Len(issues) |-> IssueToFieldError(issues[i], DEFAULT_VALIDATION_CODE)])

\* zodToFieldErrorsWithDomainCodes (lib/validation-hook)
zodToFieldErrorsWithDomainCodes(issues) ==
  IF \E i \in 1..Len(issues) : JoinThrows(issues[i].path)
  THEN Throw(TypeErrorSymbol)
  ELSE Return([i \in 1..Len(issues) |-> IssueToFieldError(issues[i], mapToECode(issues[i]))])

-----------------------------------------------------------------------------
(* Problem Converter  (lib/problem)                                        *)

GENERIC_DETAIL == "An unexpected error occurred"

isProd(e) == e.NODE_ENV = "production"

\* safeDetail without the production check
safeDetailLeaky(e, def, raw) == raw

safeDetail(e, def, raw) ==
  IF ~isProd(e) THEN raw
  ELSE IF def.exposeDetail THEN raw ELSE GENERIC_DETAIL

\* ProblemDetails; ext holds the extension members beyond code and errors
Problem(type, title, status, detail, instance, code, errors, ext) ==
  [type |-> type, title |-> title, status |-> status, detail |-> detail,
   instance |-> instance, code |-> code, errors |-> errors, ext |-> ext]

\* extension members set by the health handlers and the body limit; none elsewhere
NoExt == [checks |-> Undefined, version |-> Undefined, uptime |-> Undefined,
          limit |-> Undefined]

ProblemResult(key, httpStatus, def, problem) ==
  [key |-> key, httpStatus |-> httpStatus, logLevel |-> def.logLevel,
   errorType |-> def.errorType, problem |-> problem]

\* the AppError branch with the overrides ignored
ConvertAppErrorIgnoringOverrides(e, c, x) ==
  LET def == ProblemRegistry[x.key]
      detail == safeDetail(e, def, Nullish(x.detail, x.message))
  IN Return(ProblemResult(x.key, def.status, def,
       Problem(problemTypeUri(e, x.key), def.title, def.status, detail, c.path, def.code,
               x.errors, NoExt)))

\* the AppError branch
ConvertAppError(e, c, x) ==
  LET def == ProblemRegistry[x.key]
      status == Nullish(x.statusOverride, def.status)
      code == Nullish(x.codeOverride, def.code)
      detail == safeDetail(e, def, Nullish(x.detail, x.message))
  IN Return(ProblemResult(x.key, status, def,
       Problem(problemTypeUri(e, x.key), def.title, status, detail, c.path, code,
               x.errors, NoExt)))

\* the ZodError branch
ConvertZodError(e, c, x) ==
  LET def == ProblemRegistry["validation_error"]
      errors == zodToFieldErrors(x.issues)
  IN IF errors.threw THEN errors
     ELSE Return(ProblemResult("validation_error", def.status, def,
            Problem(problemTypeUri(e, "validation_error"), def.title, def.status,
                    safeDetail(e, def, "The request contains invalid data"),
                    c.path, def.code, errors.value, NoExt)))

\* the HTTPException branch answering with the registry status while the body
\* keeps the exception's
ConvertHTTPExceptionRegistryHttpStatus(e, c, x) ==
  LET key == statusToKey(x.status)
      def == ProblemRegistry[key]
  IN Return(ProblemResult(key, def.status, def,
       Problem(problemTypeUri(e, key), def.title, x.status,
               safeDetail(e, def, IF x.message # "" THEN x.message ELSE def.title),
               c.path, def.code, <<>>, NoExt)))

\* the HTTPException branch with the registry status instead of the exception's
ConvertHTTPExceptionRegistryStatus(e, c, x) ==
  LET key == statusToKey(x.status)
      def == ProblemRegistry[key]
  IN Return(ProblemResult(key, def.status, def,
       Problem(problemTypeUri(e, key), def.title, def.status,
               safeDetail(e, def, IF x.message # "" THEN x.message ELSE def.title),
               c.path, def.code, <<>>, NoExt)))

\* the HTTPException branch
ConvertHTTPException(e, c, x) ==
  LET key == statusToKey(x.status)
      def == ProblemRegistry[key]
  IN Return(ProblemResult(key, x.status, def,
       Problem(problemTypeUri(e, key), def.title, x.status,
               safeDetail(e, def, IF x.message # "" THEN x.message ELSE def.title),
               c.path, def.code, <<>>, NoExt)))

\* the unknown branch reading .message off any object that has one
ConvertUnknownAnyMessage(e, c, x) ==
  LET def == ProblemRegistry["internal_error"]
      msg == IF x.t = "Error" THEN x.message
             ELSE IF x.t = "object" /\ IsSet(x.messageProp) THEN x.messageProp[1]
             ELSE "Unknown error"
  IN Return(ProblemResult("internal_error", def.status, def,
       Problem(problemTypeUri(e, "internal_error"), def.title, def.status,
               safeDetail(e, def, msg), c.path, def.code, <<>>, NoExt)))

\* the unknown branch: err instanceof Error ? err.message : "Unknown error"
ConvertUnknown(e, c, x) ==
  LET def == ProblemRegistry["internal_error"]
      msg == IF x.t = "Error" THEN x.message ELSE "Unknown error"
  IN Return(ProblemResult("internal_error", def.status, def,
       Problem(problemTypeUri(e, "internal_error"), def.title, def.status,
               safeDetail(e, def, msg), c.path, def.code, <<>>, NoExt)))

\* toProblemDetails(c, err): first match wins
toProblemDetails(e, c, x) ==
  CASE x.t = "AppError" -> ConvertAppError(e, c, x)
    [] x.t = "ZodError" -> ConvertZodError(e, c, x)
    [] x.t = "HTTPException" -> ConvertHTTPException(e, c, x)
    [] OTHER -> ConvertUnknown(e, c, x)

createProblem(e, key, instance, detail, errors, codeOverride) ==
  LET def == ProblemRegistry[key]
  IN Problem(problemTypeUri(e, key), def.title, def.status, safeDetail(e, def, detail),
             instance, Nullish(codeOverride, def.code), errors, NoExt)

-----------------------------------------------------------------------------
(* Response Envelope Builder  (lib/response)                               *)

Null == [t |-> "null"]
UndefinedValue == [t |-> "undefined"]
\* JS  v != null  (loose): neither null nor undefined
NotNullish(v) == v # Null /\ v # UndefinedValue

HexLower == Digits \cup {"a", "b", "c", "d", "e", "f"}
Rep(ch, n) == [i \in 1..n |-> ch]

\* /^([0-9a-f]{2})-([0-9a-f]{32})-([0-9a-f]{16})-([0-9a-f]{2})$/
TRACEPARENT_REGEX(s) ==
  /\ Len(s) = 55
  /\ \A i \in 1..55 : IF i \in {3, 36, 53} THEN s[i] = "-" ELSE s[i] \in HexLower

\* parseTraceparent cutting the ids out of any header long enough to hold them
parseTraceparentLenient(traceparent) ==
  LET none == [traceId |-> Undefined, spanId |-> Undefined]
  IN IF ~IsSet(traceparent) \/ Len(traceparent[1]) < 52 THEN none
     ELSE [traceId |-> Some(SubSeq(traceparent[1], 4, 35)),
           spanId |-> Some(SubSeq(traceparent[1], 37, 52))]

\* parseTraceparent without the three semantic rejections
parseTraceparentSyntaxOnly(traceparent) ==
  LET none == [traceId |-> Undefined, spanId |-> Undefined]
  IN IF ~IsSet(traceparent) \/ traceparent[1] = <<>> THEN none
     ELSE IF ~TRACEPARENT_REGEX(traceparent[1]) THEN none
     ELSE [traceId |-> Some(SubSeq(traceparent[1], 4, 35)),
           spanId |-> Some(SubSeq(traceparent[1], 37, 52))]

\* parseTraceparent(traceparent): {} or {traceId, spanId}
parseTraceparent(traceparent) ==
  LET none == [traceId |-> Undefined, spanId |-> Undefined]
  IN IF ~IsSet(traceparent) \/ traceparent[1] = <<>> THEN none
     ELSE IF ~TRACEPARENT_REGEX(traceparent[1]) THEN none
     ELSE LET version == SubSeq(traceparent[1], 1, 2)
              traceId == SubSeq(traceparent[1], 4, 35)
              spanId == SubSeq(traceparent[1], 37, 52)
          IN IF \/ version = <<"f", "f">>
                \/ traceId = Rep("0", 32)
                \/ spanId = Rep("0", 16)
             THEN none
             ELSE [traceId |-> Some(traceId), spanId |-> Some(spanId)]

\* a log line: where it went, its severity, its message and structured context
LogLine(sink, level, message, context) ==
  [sink |-> sink, level |-> level, message |-> message, context |-> context]

\* !requestId : undefined or the empty string
MissingRequestId(c) == ~IsSet(c.requestId) \/ c.requestId[1] = ""

\* getRequestId generating an identifier whatever the context holds
getRequestIdAlwaysFresh(c, uuid) == uuid

\* getRequestId(c): the context value, or a fresh crypto.randomUUID() (uuid)
getRequestId(c, uuid) == IF MissingRequestId(c) THEN uuid ELSE c.requestId[1]

\* the console.error line getRequestId writes on the fallback path
RequestIdConsole(c) ==
  IF MissingRequestId(c)
  THEN <<LogLine("console", "error", "[response.ts] requestId not found in context", Undefined)>>
  ELSE <<>>

\* buildMeta(c); the timestamp is the time of the call
buildMeta(c, uuid) ==
  LET tp == parseTraceparent(c.traceparent)
  IN [requestId |-> getRequestId(c, uuid), timestamp |-> "now",
      traceId |-> tp.traceId, spanId |-> tp.spanId]

\* c.json(body, status): the headers set on the context so far go with it
Json(c, body, status) == [status |-> status, headers |-> c.resHeaders, body |-> body]

\* ok(c, data, status?)
ok(c, data, status, uuid) ==
  Json(c, [success |-> TRUE, data |-> data, error |-> Null, meta |-> buildMeta(c, uuid)],
       IF IsSet(status) THEN status[1] ELSE 200)

\* fail leaving the problem in data as well
failWithData(c, problem, status, uuid) ==
  Json(c, [success |-> FALSE, data |-> problem, error |-> problem, meta |-> buildMeta(c, uuid)],
       status)

\* fail answering with the status of the problem, whatever status it is given
failWithProblemStatus(c, problem, status, uuid) ==
  Json(c, [success |-> FALSE, data |-> Null, error |-> problem, meta |-> buildMeta(c, uuid)],
       problem.status)

\* fail(c, problem, status)
fail(c, problem, status, uuid) ==
  Json(c, [success |-> FALSE, data |-> Null, error |-> problem, meta |-> buildMeta(c, uuid)],
       status)

\* env.MAX_DEFAULT_BODY_SIZE_BYTES (its default)
MAX_DEFAULT_BODY_SIZE_BYTES == 1048576

\* the onError of bodyLimit: the envelope is written out in place, with the
\* type URI, title, status and code as literals
bodyLimitOnError(e, c) ==
  LET maxMB == (MAX_DEFAULT_BODY_SIZE_BYTES + 524288) \div 1048576
  IN Json(c,
          [success |-> FALSE, data |-> Null,
           error |-> Problem("https://api.template.local/problems/payload-too-large",
                             "Payload too large", 413, "Request body too large", c.path,
                             <<"E", "1", "4", "1", "3">>, <<>>,
                             [NoExt EXCEPT !.limit = Some(NumToStr(maxMB) \o <<"M", "B">>)]),
           meta |-> [requestId |-> IF MissingRequestId(c) THEN "unknown" ELSE c.requestId[1],
                     timestamp |-> "now", traceId |-> Undefined, spanId |-> Undefined]],
          413)

-----------------------------------------------------------------------------
(* Health checks  (modules/health/health.service)                          *)

RETRY_AFTER_SECONDS == 30

CheckResult(name, status, message) == [name |-> name, status |-> status, message |-> message]

\* checkDatabase: the query races a timeout; db is how the race ends.
\* (responseTimeMs, a measured duration, is left out of CheckResult)
checkDatabase(db) ==
  CASE db = "resolves" -> CheckResult("database", "UP", "Connection successful")
    [] db = "rejects" -> CheckResult("database", "DOWN", "connect ECONNREFUSED db:5432")
    [] db = "rejects-non-error" -> CheckResult("database", "DOWN", "Unknown database error")
    [] OTHER -> CheckResult("database", "DOWN", "Database check timed out after 2000ms")

\* checkMemory: DOWN when heap usage is above 85 % (heapHigh)
checkMemory(heapHigh) ==
  IF heapHigh THEN CheckResult("memory", "DOWN", "High memory usage")
  ELSE CheckResult("memory", "UP", "Memory usage normal")

calculateHealthStatus(checks) ==
  LET hasFailure == \E i \in 1..Len(checks) : checks[i].status = "DOWN"
      allPass == \A i \in 1..Len(checks) : checks[i].status \in {"UP", "SKIP"}
  IN IF hasFailure THEN "DOWN" ELSE IF allPass THEN "UP" ELSE "DEGRADED"

isReady(checks) ==
  \E i \in 1..Len(checks) :
    /\ checks[i].name = "database"
    /\ \A j \in 1..(i - 1) : checks[j].name # "database"
    /\ checks[i].status = "UP"

\* createHealthProblem(c, detail, checks): the detail goes out as given
createHealthProblem(e, c, detail, checks) ==
  LET def == ProblemRegistry["service_unavailable"]
  IN Problem(problemTypeUri(e, "service_unavailable"), def.title, def.status, detail,
             c.path, def.code, <<>>, [NoExt EXCEPT !.checks = Some(checks)])

setNoCacheHeaders(c) == [c EXCEPT !.resHeaders = @ \cup {<<"Cache-Control", "no-store">>}]
\* setRetryAfterHeader leaving the headers as they are
setRetryAfterHeaderUnset(c) == c

setRetryAfterHeader(c) ==
  [c EXCEPT !.resHeaders = @ \cup {<<"Retry-After", NumToStr(RETRY_AFTER_SECONDS)>>}]

-----------------------------------------------------------------------------
(* Inputs                                                                  *)

\* longest issue list a schema validation error carries
MaxIssues == 2

Envs == [NODE_ENV : {"production", "development"},
         API_BASE_URL : {Undefined, Some("https://api.example.com")}]

TraceparentValid == <<
    "0", "0", "-", "0", "a", "f", "7", "6", "5", "1", "9", "1", "6", "c", "d", "4",
    "3", "d", "d", "8", "4", "4", "8", "e", "b", "2", "1", "1", "c", "8", "0", "3",
    "1", "9", "c", "-", "b", "7", "a", "d", "6", "b", "7", "1", "6", "9", "2", "0",
    "3", "3", "3", "1", "-", "0", "1" >>
TraceparentZeroTrace == <<
    "0", "0", "-", "0", "0", "0", "0", "0", "0", "0", "0", "0", "0", "0", "0", "0",
    "0", "0", "0", "0", "0", "0", "0", "0", "0", "0", "0", "0", "0", "0", "0", "0",
    "0", "0", "0", "-", "b", "7", "a", "d", "6", "b", "7", "1", "6", "9", "2", "0",
    "3", "3", "3", "1", "-", "0", "1" >>

Loggers == {Undefined, Some(LogLevels), Some({"warn", "error"})}

Requests ==
  [method : {"GET", "OPTIONS"},
   path : {"/graphql", "/health/ready"},
   traceparent : {Undefined, Some(TraceparentValid), Some(TraceparentZeroTrace)},
   requestId : {Undefined, Some("req-1")},
   logger : Loggers,
   resHeaders : {{}}]

FabricatedIds == {"uuid-1", "uuid-2"}

EmailField == <<"e", "m", "a", "i", "l">>
SampleFieldError ==
  FieldError(Some(EmailField), Some(<<"#", "/">> \o EmailField), "bad", Undefined, Undefined)

\* AppErrors as the factories build them
FactoryErrors ==
  {AppErrorValidation("invalid data", <<SampleFieldError>>),
   AppErrorValidation("", <<>>),
   AppErrorNotFound("User", Some("123")),
   AppErrorNotFound("Route", Undefined),
   AppErrorUnauthorized(Undefined),
   AppErrorUnauthorized(Some("Token expired")),
   AppErrorForbidden(Undefined),
   AppErrorConflict("Email already exists"),
   AppErrorBadRequest("Invalid JSON body"),
   AppErrorInternal("Database connection failed"),
   AppErrorServiceUnavailable("Database"),
   AppErrorRateLimited(Undefined),
   AppErrorInvalidCredentials,
   AppErrorTokenExpired,
   AppErrorCompanyNotFound("acme"),
   AppErrorEnvironmentNotFound("prod")}

\* AppErrors built with the public constructor: every key, with and without overrides
ConstructedErrors ==
  {AppError(k, "message of the error",
            [NoOpts EXCEPT !.statusOverride = so, !.codeOverride = co]) :
     k \in ProblemKeys, so \in {Undefined, Some(418)},
     co \in {Undefined, Some(<<"E", "3", "0", "0", "1">>)}}

AppErrors == FactoryErrors \cup ConstructedErrors

ZodError(issues) == [t |-> "ZodError", message |-> "zod issues", issues |-> issues]

NoParams == Undefined
Marker(v) == Some([ecode |-> v])

\* issues raised by the schemas: plain, tagged with a domain code, keyed by a symbol
PlainIssue == Issue(<<StrSeg(EmailField)>>, "Invalid email", "invalid_format", NoParams)
TaggedIssue ==
  Issue(<<StrSeg(<<"f", "/", "d">>), NumSeg(0)>>, "Invalid base64", "custom",
        Marker(Some(StrSeg(<<"E", "3", "0", "0", "2">>))))
SymbolIssue == Issue(<<SymSeg>>, "Invalid key", "invalid_key", NoParams)

Issues == {PlainIssue, TaggedIssue, SymbolIssue}
IssueLists == SeqsUpTo(Issues, MaxIssues)

ZodErrors == {ZodError(l) : l \in IssueLists}

HttpStatuses == {400, 401, 403, 404, 409, 413, 422, 429, 502, 503, 504, 500, 418, 999}
HTTPException(status, message) == [t |-> "HTTPException", status |-> status, message |-> message]
HTTPExceptions ==
  {HTTPException(st, m) : st \in HttpStatuses, m \in {"", "Missing or invalid Authorization header"}}

\* values that are none of the three known classes
UnknownErrors ==
  {[t |-> "Error", message |-> "db password leaked"],
   [t |-> "Error", message |-> ""],
   [t |-> "object", messageProp |-> Some("message of a plain object")],
   [t |-> "object", messageProp |-> Undefined],
   [t |-> "string", text |-> "thrown string"],
   Null,
   UndefinedValue}

ThrownValues == AppErrors \cup ZodErrors \cup HTTPExceptions \cup UnknownErrors

\* instanceof Error (zod's parse throws a ZodError that extends Error)
IsErrorInstance(x) == x.t \in {"AppError", "ZodError", "HTTPException", "Error"}

DataValues ==
  {Null, UndefinedValue, [t |-> "object", payload |-> "user"], [t |-> "number", n |-> 0]}

\* what @hono/zod-openapi hands the hook when validation failed
HookErrors ==
  ZodErrors \cup {[t |-> "object", issues |-> Some(<<PlainIssue>>)],
                  [t |-> "object", issues |-> Undefined],
                  UndefinedValue}

DbOutcomes == {"resolves", "rejects", "rejects-non-error", "timeout"}

-----------------------------------------------------------------------------
(* Boundary handlers and the request life cycle                            *)

\* the logged context with the request id left out
LogContextWithoutRequestId(c, statusCode, code, name, detail) ==
  Some([requestId |-> Undefined, statusCode |-> statusCode, code |-> code,
        name |-> name, detail |-> detail, path |-> c.path, method |-> c.method])

\* the structured context both boundary handlers log
LogContext(c, statusCode, code, name, detail) ==
  Some([requestId |-> c.requestId, statusCode |-> statusCode, code |-> code,
        name |-> name, detail |-> detail, path |-> c.path, method |-> c.method])

\* handleStandardError logging every category through logger.error
handleStandardErrorAlwaysError(e, c, x, uuid) ==
  LET r == toProblemDetails(e, c, x)
  IN IF r.threw THEN [threw |-> TRUE, error |-> r.error, converted |-> r,
                      events |-> <<"convert">>]
     ELSE
       LET res == r.value
           message == IF IsErrorInstance(x) THEN x.message ELSE "Error"
           logContext == LogContext(c, res.httpStatus, res.problem.code, res.errorType,
                                    Some(res.problem.detail))
           lines == IF IsSet(c.logger)
                    THEN IF "error" \in c.logger[1]
                         THEN <<LogLine("logger", "error", message, logContext)>>
                         ELSE <<>>
                    ELSE <<LogLine("console", "error", message, logContext)>>
       IN [threw |-> FALSE,
           converted |-> r,
           response |-> fail(c, res.problem, res.httpStatus, uuid),
           log |-> lines \o RequestIdConsole(c),
           events |-> <<"convert">> \o (IF lines # <<>> THEN <<"log">> ELSE <<>>)
                      \o <<"envelope", "respond">>]

\* handleStandardError(err, c): convert, log once at the category's level, fail.
\* Yields the response, the log lines and the steps taken, or the error the
\* conversion threw.
handleStandardError(e, c, x, uuid) ==
  LET r == toProblemDetails(e, c, x)
  IN IF r.threw THEN [threw |-> TRUE, error |-> r.error, converted |-> r,
                      events |-> <<"convert">>]
     ELSE
       LET res == r.value
           message == IF IsErrorInstance(x) THEN x.message ELSE "Error"
           logContext == LogContext(c, res.httpStatus, res.problem.code, res.errorType,
                                    Some(res.problem.detail))
           lines == IF IsSet(c.logger)
                    THEN IF res.logLevel \in c.logger[1]
                         THEN <<LogLine("logger", res.logLevel, message, logContext)>>
                         ELSE <<>>
                    ELSE <<LogLine("console", "error", message, logContext)>>
       IN [threw |-> FALSE,
           converted |-> r,
           response |-> fail(c, res.problem, res.httpStatus, uuid),
           log |-> lines \o RequestIdConsole(c),
           events |-> <<"convert">> \o (IF lines # <<>> THEN <<"log">> ELSE <<>>)
                      \o <<"envelope", "respond">>]

Init ==
  /\ env \in Envs
  /\ pc = "idle"
  /\ req = Undefined
  /\ err = Undefined
  /\ converted = Undefined
  /\ outcome = Undefined
  /\ response = Undefined
  /\ log = <<>>
  /\ events = <<>>
  /\ fnIn = Undefined
  /\ fnOut = Undefined

\* a request arrives and the middleware chain has populated the context
Receive ==
  /\ pc = "idle"
  /\ \E c \in Requests : req' = Some(c)
  /\ pc' = "handling"
  /\ UNCHANGED <<env, err, converted, outcome, response, log, events, fnIn, fnOut>>

\* a route handler returns ok(c, data) or ok(c, data, status)
HandlerOk ==
  /\ pc = "handling"
  /\ \E data \in DataValues, status \in {Undefined, Some(201)}, uuid \in FabricatedIds :
       /\ outcome' = Some([kind |-> "ok", data |-> data])
       /\ response' = Some(ok(req[1], data, status, uuid))
  /\ log' = RequestIdConsole(req[1])
  /\ events' = <<"envelope", "respond">>
  /\ pc' = "responded"
  /\ UNCHANGED <<env, req, err, converted, fnIn, fnOut>>

\* middleware or a route handler throws; the framework hands the value to onError
HandlerThrows ==
  /\ pc = "handling"
  /\ \E x \in ThrownValues : err' = Some(x)
  /\ pc' = "thrown"
  /\ UNCHANGED <<env, req, converted, outcome, response, log, events, fnIn, fnOut>>

\* errorHandler(err, c)
ErrorHandler ==
  /\ pc = "thrown"
  /\ \E uuid \in FabricatedIds :
       \E h \in {handleStandardError(env, req[1], err[1], uuid)} :
          /\ converted' = Some([input |-> err[1], outcome |-> h.converted])
          /\ IF h.threw
             THEN /\ pc' = "crashed"
                  /\ events' = events \o h.events
                  /\ UNCHANGED <<response, log>>
             ELSE /\ pc' = "responded"
                  /\ response' = Some(h.response)
                  /\ log' = log \o h.log
                  /\ events' = events \o h.events
  /\ UNCHANGED <<env, req, err, outcome, fnIn, fnOut>>

\* validationHook(result, c) on a failed validation (a passed one returns at once)
ValidationHook ==
  /\ pc = "handling"
  /\ \E error \in HookErrors, uuid \in FabricatedIds :
       LET issues == IF error.t = "ZodError" THEN error.issues
                     ELSE IF error.t = "object" THEN Nullish(error.issues, <<>>)
                     ELSE <<>>
           fieldErrors == zodToFieldErrorsWithDomainCodes(issues)
       IN /\ outcome' = Some([kind |-> "hook", issues |-> issues])
          /\ IF fieldErrors.threw
             THEN /\ err' = Some(fieldErrors.error)
                  /\ pc' = "thrown"
                  /\ UNCHANGED <<converted, response, log, events>>
             ELSE LET appErr == AppErrorValidation("The request contains invalid data",
                                                   fieldErrors.value)
                      r == toProblemDetails(env, req[1], appErr)
                  IN /\ converted' = Some([input |-> appErr, outcome |-> r])
                     /\ response' = Some(fail(req[1], r.value.problem, 422, uuid))
                     /\ log' = RequestIdConsole(req[1])
                     /\ events' = <<"convert", "envelope", "respond">>
                     /\ pc' = "responded"
                     /\ UNCHANGED err
  /\ UNCHANGED <<env, req, fnIn, fnOut>>

\* notFoundHandler with a detail that names the path only
notFoundHandlerPathOnly(e, c, uuid) ==
  LET def == ProblemRegistry["not_found"]
      problem == Problem(problemTypeUri(e, "not_found"), def.title, def.status,
                         "Route '" \o c.path \o "' was not found",
                         c.path, def.code, <<>>, NoExt)
      lines == IF IsSet(c.logger) /\ "info" \in c.logger[1]
               THEN <<LogLine("logger", "info", "Route not found",
                              LogContext(c, 404, def.code, def.errorType, Undefined))>>
               ELSE <<>>
  IN [response |-> fail(c, problem, 404, uuid),
      log |-> lines \o RequestIdConsole(c),
      events |-> (IF lines # <<>> THEN <<"log">> ELSE <<>>) \o <<"envelope", "respond">>]

\* notFoundHandler(c): the not_found problem built against the registry entry,
\* one logger.info line when the logger has that method, then fail(c, problem, 404)
notFoundHandler(e, c, uuid) ==
  LET def == ProblemRegistry["not_found"]
      problem == Problem(problemTypeUri(e, "not_found"), def.title, def.status,
                         "Route '" \o c.method \o " " \o c.path \o "' was not found",
                         c.path, def.code, <<>>, NoExt)
      lines == IF IsSet(c.logger) /\ "info" \in c.logger[1]
               THEN <<LogLine("logger", "info", "Route not found",
                              LogContext(c, 404, def.code, def.errorType, Undefined))>>
               ELSE <<>>
  IN [response |-> fail(c, problem, 404, uuid),
      log |-> lines \o RequestIdConsole(c),
      events |-> (IF lines # <<>> THEN <<"log">> ELSE <<>>) \o <<"envelope", "respond">>]

\* the framework found no route and calls notFoundHandler(c): the root app's
\* whole middleware chain has run, so structuredLogger has set the logger
NotFoundHandler ==
  /\ pc = "handling"
  /\ req[1].logger = Some(LogLevels)
  /\ \E uuid \in FabricatedIds :
       \E h \in {notFoundHandler(env, req[1], uuid)} :
          /\ response' = Some(h.response)
          /\ log' = h.log
          /\ events' = h.events
  /\ outcome' = Some([kind |-> "notFound"])
  /\ pc' = "responded"
  /\ UNCHANGED <<env, req, err, converted, fnIn, fnOut>>

\* the body of the request is larger than the limit: bodyLimit answers
BodyLimitOnError ==
  /\ pc = "handling"
  /\ response' = Some(bodyLimitOnError(env, req[1]))
  /\ outcome' = Some([kind |-> "bodyLimit"])
  /\ events' = <<"envelope", "respond">>
  /\ pc' = "responded"
  /\ UNCHANGED <<env, req, err, converted, log, fnIn, fnOut>>

\* readyHandler(c): performReadinessCheck, then ok or a 503 problem
ReadyHandler ==
  /\ pc = "handling"
  /\ \E db \in DbOutcomes, uuid \in FabricatedIds :
       LET c == setNoCacheHeaders(req[1])
           checks == <<checkDatabase(db)>>
       IN /\ outcome' = Some([kind |-> "ready", checks |-> checks])
          /\ response' =
               IF isReady(checks)
               THEN Some(ok(c, [t |-> "object", ready |-> [status |-> "ready", checks |-> checks]],
                            Undefined, uuid))
               ELSE Some(fail(setRetryAfterHeader(c),
                              createHealthProblem(env, c, "Service is not ready to accept traffic",
                                                  checks),
                              503, uuid))
  /\ log' = RequestIdConsole(req[1])
  /\ events' = <<"envelope", "respond">>
  /\ pc' = "responded"
  /\ UNCHANGED <<env, req, err, converted, fnIn, fnOut>>

\* healthHandler(c): performFullHealthCheck, then ok or a 503 problem
HealthHandler ==
  /\ pc = "handling"
  /\ \E db \in DbOutcomes, heapHigh \in BOOLEAN, uuid \in FabricatedIds :
       LET c == setNoCacheHeaders(req[1])
           checks == <<checkDatabase(db), checkMemory(heapHigh)>>
           status == calculateHealthStatus(checks)
           result == [status |-> status, version |-> "APP_VERSION", uptime |-> "uptime",
                      checks |-> checks]
           base == createHealthProblem(env, c, "Service is " \o status, checks)
       IN /\ outcome' = Some([kind |-> "health", checks |-> checks])
          /\ response' =
               IF status = "UP"
               THEN Some(ok(c, [t |-> "object", health |-> result], Undefined, uuid))
               ELSE Some(fail(setRetryAfterHeader(c),
                              [base EXCEPT !.ext.version = Some(result.version),
                                           !.ext.uptime = Some(result.uptime)],
                              503, uuid))
  /\ log' = RequestIdConsole(req[1])
  /\ events' = <<"envelope", "respond">>
  /\ pc' = "responded"
  /\ UNCHANGED <<env, req, err, converted, fnIn, fnOut>>

Next ==
  \/ Receive
  \/ HandlerOk
  \/ HandlerThrows
  \/ ErrorHandler
  \/ ValidationHook
  \/ NotFoundHandler
  \/ BodyLimitOnError
  \/ ReadyHandler
  \/ HealthHandler

Spec == Init /\ [][Next]_vars

-----------------------------------------------------------------------------
(* The validation adapters as pure functions of an issue list               *)

E3002 == <<"E", "3", "0", "0", "2">>

\* params of an issue: none, without an ecode, a well-formed ecode, malformed
\* ones (too short, too long), and an ecode that is not a string
AdapterMarkers ==
  {NoParams,
   Marker(Undefined),
   Marker(Some(StrSeg(E3002))),
   Marker(Some(StrSeg(<<"E", "3", "0">>))),
   Marker(Some(StrSeg(<<"E", "3", "0", "0", "2", "5">>))),
   Marker(Some(NumSeg(3002)))}

AdapterMessages == {"Invalid email", "Neplatny e-mail"}

\* issues on one field with every message and marker, an issue on the root
\* (empty path), one on a nested array element, one keyed by a symbol
AdapterIssues ==
  {Issue(<<StrSeg(EmailField)>>, m, "custom", p) : m \in AdapterMessages, p \in AdapterMarkers}
    \cup {Issue(<<>>, "Invalid input", "invalid_type", NoParams), TaggedIssue, SymbolIssue}

AdapterIssueLists == SeqsUpTo(AdapterIssues, MaxIssues)

InitAdapter ==
  /\ env \in {e \in Envs : e.NODE_ENV = "production" /\ e.API_BASE_URL = Undefined}
  /\ pc = "pure"
  /\ req = Undefined
  /\ err = Undefined
  /\ converted = Undefined
  /\ outcome = Undefined
  /\ response = Undefined
  /\ log = <<>>
  /\ events = <<>>
  /\ fnIn \in {Some(l) : l \in AdapterIssueLists}
  /\ fnOut = Undefined

\* zodToFieldErrorsWithDomainCodes(issues)
ApplyHookAdapter ==
  /\ pc = "pure"
  /\ fnOut = Undefined
  /\ fnOut' = Some([fn |-> "zodToFieldErrorsWithDomainCodes",
                    result |-> zodToFieldErrorsWithDomainCodes(fnIn[1])])
  /\ UNCHANGED <<env, pc, req, err, converted, outcome, response, log, events, fnIn>>

\* zodToFieldErrors(issues)
ApplyDefaultAdapter ==
  /\ pc = "pure"
  /\ fnOut = Undefined
  /\ fnOut' = Some([fn |-> "zodToFieldErrors", result |-> zodToFieldErrors(fnIn[1])])
  /\ UNCHANGED <<env, pc, req, err, converted, outcome, response, log, events, fnIn>>

NextAdapter ==
  \/ ApplyHookAdapter
  \/ ApplyDefaultAdapter

SpecAdapter == InitAdapter /\ [][NextAdapter]_vars

-----------------------------------------------------------------------------
(* The library functions as pure functions of their arguments              *)

\* largest magnitude of a status handed to statusToKey
MaxStatus == 600

StatusInputs == {[fn |-> "statusToKey", status |-> n] : n \in (0 - MaxStatus)..MaxStatus}

\* the keys getProblemDef is asked for
RegistryInputs == {[fn |-> "getProblemDef", key |-> k] : k \in ProblemKeys}

\* a property of one of the code tables, or a key of the base registry
CodeInputs ==
  {[fn |-> "code", table |-> "AUTH", index |-> i] : i \in 1..Len(AUTH_CODES)}
    \cup {[fn |-> "code", table |-> "SIGNING", index |-> i] : i \in 1..Len(SIGNING_CODES)}
    \cup {[fn |-> "code", table |-> "COMPANY", index |-> i] : i \in 1..Len(COMPANY_CODES)}
    \cup {[fn |-> "code", table |-> "SOAP", index |-> i] : i \in 1..Len(SOAP_CODES)}
    \cup {[fn |-> "code", table |-> "REGISTRY", key |-> k] : k \in ProblemKeys}

\* traceparent header values: none, empty, valid, all-zero trace id, all-zero
\* parent id, reserved version, upper-case hex, flags missing, a trailing
\* extra field, a non-hex character
Traceparent(version, traceId, spanId, flags) ==
  version \o <<"-">> \o traceId \o <<"-">> \o spanId \o <<"-">> \o flags

ValidTraceId == SubSeq(TraceparentValid, 4, 35)
ValidSpanId == SubSeq(TraceparentValid, 37, 52)

TraceHeaders ==
  {Undefined,
   Some(<<>>),
   Some(TraceparentValid),
   Some(TraceparentZeroTrace),
   Some(Traceparent(<<"0", "0">>, ValidTraceId, Rep("0", 16), <<"0", "1">>)),
   Some(Traceparent(<<"f", "f">>, ValidTraceId, ValidSpanId, <<"0", "1">>)),
   Some(Traceparent(<<"0", "0">>, [ValidTraceId EXCEPT ![2] = "A"], ValidSpanId, <<"0", "1">>)),
   Some(SubSeq(TraceparentValid, 1, 52)),
   Some(TraceparentValid \o <<"-", "0", "0">>),
   Some(Traceparent(<<"0", "0">>, ValidTraceId, [ValidSpanId EXCEPT ![16] = "g"], <<"0", "1">>))}

\* contexts the envelope builder may be handed
EnvelopeContexts ==
  [method : {"GET"},
   path : {"/graphql"},
   traceparent : TraceHeaders,
   requestId : {Undefined, Some(""), Some("req-1")},
   logger : {Undefined},
   resHeaders : {{}}]

SampleProblems ==
  {createProblem([NODE_ENV |-> "production", API_BASE_URL |-> Undefined],
                 k, "/graphql", "detail of the problem", <<>>, Undefined) :
     k \in {"not_found", "internal_error"}}

\* statuses a caller hands to fail next to the problem
FailStatuses == {404, 500}

EnvelopeInputs ==
  {[fn |-> "buildMeta", c |-> c, uuid |-> u] : c \in EnvelopeContexts, u \in FabricatedIds}
    \cup {[fn |-> "ok", c |-> c, data |-> d, status |-> st, uuid |-> u] :
            c \in EnvelopeContexts, d \in DataValues, st \in {Undefined, Some(201)},
            u \in FabricatedIds}
    \cup {[fn |-> "fail", c |-> c, problem |-> p, httpStatus |-> st, uuid |-> u] :
            c \in EnvelopeContexts, p \in SampleProblems, st \in FailStatuses,
            u \in FabricatedIds}

\* longest string segment, largest array index, longest path
MaxSegLen == 3
MaxIndex == 12
MaxPathLen == 2

\* characters a property name may hold: the two RFC 6901 specials, the four a
\* fragment must not hold raw, the five encodeURIComponent never touches, a
\* letter and a digit
SegChars == {"~", "/", " ", "%", "#", "?", "!", "'", "(", ")", "*", "a", "0"}

Tokens ==
  {StrSeg(chars) : chars \in SeqsUpTo(SegChars, MaxSegLen)}
    \cup {NumSeg(n) : n \in 0..MaxIndex}

EscapeInputs == {[fn |-> "escapeJsonPointerToken", token |-> t] : t \in Tokens}

PathSegments ==
  {StrSeg(<<"u", "s", "e", "r">>),
   StrSeg(<<"a", " ", "b">>),
   StrSeg(<<"c", "%", "d">>),
   StrSeg(<<"c", "%", "2", "5", "d">>),
   StrSeg(<<"#", "?">>),
   StrSeg(<<"~", "/">>),
   StrSeg(<<"~", "0", "~", "1">>),
   StrSeg(<<"/">>),
   StrSeg(<<"~", "1">>),
   StrSeg(<<"!", "'", "(", ")", "*">>),
   StrSeg(<<>>),
   StrSeg(<<"a", LoneSurrogate>>),
   NumSeg(0),
   SymSeg}

\* options: omitted, { uriEncode: false }, { uriEncode: true }
PathInputs ==
  {[fn |-> "toJsonPointerFragment", path |-> path, uriEncode |-> u] :
     path \in SeqsUpTo(PathSegments, MaxPathLen), u \in {Undefined, Some(FALSE), Some(TRUE)}}

FnInputs ==
  StatusInputs \cup RegistryInputs \cup CodeInputs \cup EnvelopeInputs \cup EscapeInputs
    \cup PathInputs

InitFn ==
  /\ env \in {e \in Envs : e.NODE_ENV = "production" /\ e.API_BASE_URL = Undefined}
  /\ pc = "pure"
  /\ req = Undefined
  /\ err = Undefined
  /\ converted = Undefined
  /\ outcome = Undefined
  /\ response = Undefined
  /\ log = <<>>
  /\ events = <<>>
  /\ fnIn \in {Some(i) : i \in FnInputs}
  /\ fnOut = Undefined

\* statusToKey(status)
ApplyStatusToKey ==
  /\ pc = "pure"
  /\ fnOut = Undefined
  /\ fnIn[1].fn = "statusToKey"
  /\ fnOut' = Some([key |-> statusToKey(fnIn[1].status)])
  /\ UNCHANGED <<env, pc, req, err, converted, outcome, response, log, events, fnIn>>

\* getProblemDef(key)
ApplyGetProblemDef ==
  /\ pc = "pure"
  /\ fnOut = Undefined
  /\ fnIn[1].fn = "getProblemDef"
  /\ fnOut' = Some([def |-> getProblemDef(fnIn[1].key)])
  /\ UNCHANGED <<env, pc, req, err, converted, outcome, response, log, events, fnIn>>

\* TABLE.NAME, or ProblemRegistry[key].code
ReadCode ==
  /\ pc = "pure"
  /\ fnOut = Undefined
  /\ fnIn[1].fn = "code"
  /\ fnOut' = Some([code |->
        CASE fnIn[1].table = "AUTH" -> ObjectValues(AUTH_CODES)[fnIn[1].index]
          [] fnIn[1].table = "SIGNING" -> ObjectValues(SIGNING_CODES)[fnIn[1].index]
          [] fnIn[1].table = "COMPANY" -> ObjectValues(COMPANY_CODES)[fnIn[1].index]
          [] fnIn[1].table = "SOAP" -> ObjectValues(SOAP_CODES)[fnIn[1].index]
          [] OTHER -> ProblemRegistry[fnIn[1].key].code])
  /\ UNCHANGED <<env, pc, req, err, converted, outcome, response, log, events, fnIn>>

\* buildMeta(c)
ApplyBuildMeta ==
  /\ pc = "pure"
  /\ fnOut = Undefined
  /\ fnIn[1].fn = "buildMeta"
  /\ fnOut' = Some([meta |-> buildMeta(fnIn[1].c, fnIn[1].uuid),
                    console |-> RequestIdConsole(fnIn[1].c)])
  /\ UNCHANGED <<env, pc, req, err, converted, outcome, response, log, events, fnIn>>

\* ok(c, data, status?)
ApplyOk ==
  /\ pc = "pure"
  /\ fnOut = Undefined
  /\ fnIn[1].fn = "ok"
  /\ fnOut' = Some([response |-> ok(fnIn[1].c, fnIn[1].data, fnIn[1].status, fnIn[1].uuid),
                    console |-> RequestIdConsole(fnIn[1].c)])
  /\ UNCHANGED <<env, pc, req, err, converted, outcome, response, log, events, fnIn>>

\* fail(c, problem, status)
ApplyFail ==
  /\ pc = "pure"
  /\ fnOut = Undefined
  /\ fnIn[1].fn = "fail"
  /\ fnOut' = Some([response |-> fail(fnIn[1].c, fnIn[1].problem, fnIn[1].httpStatus,
                                      fnIn[1].uuid),
                    console |-> RequestIdConsole(fnIn[1].c)])
  /\ UNCHANGED <<env, pc, req, err, converted, outcome, response, log, events, fnIn>>

\* escapeJsonPointerToken(token)
ApplyEscape ==
  /\ pc = "pure"
  /\ fnOut = Undefined
  /\ fnIn[1].fn = "escapeJsonPointerToken"
  /\ fnOut' = Some([escaped |-> escapeJsonPointerToken(fnIn[1].token)])
  /\ UNCHANGED <<env, pc, req, err, converted, outcome, response, log, events, fnIn>>

\* toJsonPointerFragment(path, options?)
ApplyToFragment ==
  /\ pc = "pure"
  /\ fnOut = Undefined
  /\ fnIn[1].fn = "toJsonPointerFragment"
  /\ fnOut' = Some([result |->
        toJsonPointerFragment(fnIn[1].path, IsSet(fnIn[1].uriEncode) /\ fnIn[1].uriEncode[1])])
  /\ UNCHANGED <<env, pc, req, err, converted, outcome, response, log, events, fnIn>>

NextFn ==
  \/ ApplyStatusToKey
  \/ ApplyGetProblemDef
  \/ ReadCode
  \/ ApplyBuildMeta
  \/ ApplyOk
  \/ ApplyFail
  \/ ApplyEscape
  \/ ApplyToFragment

SpecFn == InitFn /\ [][NextFn]_vars

-----------------------------------------------------------------------------
(* The authentication middleware in front of a handler                     *)

PUBLIC_PATHS ==
  {"/", "/health", "/health/live", "/health/ready", "/metrics", "/doc", "/reference"}

\* String.prototype.startsWith, slice(n) and trim (blanks at both ends)
startsWith(str, prefix) ==
  Len(str) >= Len(prefix) /\ SubSeq(str, 1, Len(prefix)) = prefix
slice(str, n) == SubSeq(str, n + 1, Len(str))
RECURSIVE trim(_)
trim(str) ==
  IF str = "" THEN ""
  ELSE IF SubSeq(str, 1, 1) = " " THEN trim(SubSeq(str, 2, Len(str)))
  ELSE IF SubSeq(str, Len(str), Len(str)) = " " THEN trim(SubSeq(str, 1, Len(str) - 1))
  ELSE str

isPublicPath(path) == path \in PUBLIC_PATHS \/ startsWith(path, "/reference/")

\* tokens that verify(token, env.JWT_SECRET, "HS256") accepts; it rejects the rest
VerifiedTokens == {"signed.jwt.token"}

\* authMiddleware accepting any bearer token without verifying it
authMiddlewareUnverified(c) ==
  IF c.method = "OPTIONS" \/ isPublicPath(c.path) THEN Return("next")
  ELSE IF ~IsSet(c.authorization) \/ c.authorization[1] = ""
          \/ ~startsWith(c.authorization[1], "Bearer ")
  THEN Throw(HTTPException(401, "Missing or invalid Authorization header"))
  ELSE IF trim(slice(c.authorization[1], 7)) = ""
  THEN Throw(HTTPException(401, "Missing bearer token"))
  ELSE Return("next")

\* authMiddleware(c, next): calls next, or throws an HTTPException(401)
authMiddleware(c) ==
  IF c.method = "OPTIONS" \/ isPublicPath(c.path) THEN Return("next")
  ELSE IF ~IsSet(c.authorization) \/ c.authorization[1] = ""
          \/ ~startsWith(c.authorization[1], "Bearer ")
  THEN Throw(HTTPException(401, "Missing or invalid Authorization header"))
  ELSE IF trim(slice(c.authorization[1], 7)) = ""
  THEN Throw(HTTPException(401, "Missing bearer token"))
  ELSE IF trim(slice(c.authorization[1], 7)) \notin VerifiedTokens
  THEN Throw(HTTPException(401, "Invalid or expired token"))
  ELSE Return("next")

\* Authorization headers: none, empty, another scheme, the scheme without a
\* blank, in lower case, without a token, with blanks only, with a token that
\* fails verification, with one that passes (also padded with blanks)
AuthorizationHeaders ==
  {Undefined, Some(""), Some("Basic dXNlcjpwYXNz"), Some("Bearer"), Some("bearer signed.jwt.token"),
   Some("Bearer "), Some("Bearer   "), Some("Bearer forged.jwt.token"),
   Some("Bearer signed.jwt.token"), Some("Bearer  signed.jwt.token ")}

AuthRequests ==
  [method : {"GET", "POST", "OPTIONS"},
   path : {"/graphql", "/health", "/reference/index.html", "/referenced"},
   authorization : AuthorizationHeaders,
   traceparent : {Undefined},
   requestId : {Some("req-1")},
   logger : {Some(LogLevels)},
   resHeaders : {{}}]

\* a request arrives at an app that runs authMiddleware in front of its routes
ReceiveAuth ==
  /\ pc = "idle"
  /\ \E c \in AuthRequests : req' = Some(c)
  /\ pc' = "authenticating"
  /\ UNCHANGED <<env, err, converted, outcome, response, log, events, fnIn, fnOut>>

\* authMiddleware runs: the chain goes on to the handler, or onError gets the throw
AuthMiddleware ==
  /\ pc = "authenticating"
  /\ \E r \in {authMiddleware(req[1])} :
       IF r.threw
       THEN /\ err' = Some(r.error)
            /\ pc' = "thrown"
            /\ events' = events \o <<"auth">>
       ELSE /\ pc' = "handling"
            /\ events' = events \o <<"auth", "next">>
            /\ UNCHANGED err
  /\ UNCHANGED <<env, req, converted, outcome, response, log, fnIn, fnOut>>

NextAuth ==
  \/ ReceiveAuth
  \/ AuthMiddleware
  \/ HandlerOk
  \/ ErrorHandler

SpecAuth == Init /\ [][NextAuth]_vars

-----------------------------------------------------------------------------
(* Two requests in flight at once                                          *)

\* the requests in flight; the event loop interleaves their steps at every await
InFlight == {1, 2}

\* each request has its own context, with the id the requestId middleware gave it
ConcurrentContexts(i) ==
  [method : {"GET"},
   path : {"/graphql", "/health/ready"},
   traceparent : {Undefined},
   requestId : {Some(IF i = 1 THEN "req-1" ELSE "req-2")},
   logger : {Some(LogLevels)},
   resHeaders : {{}}]

ConcurrentThrown ==
  {AppErrorNotFound("User", Some("123")),
   HTTPException(429, ""),
   [t |-> "Error", message |-> "db password leaked"],
   ZodError(<<PlainIssue>>)}

\* a context kept in one place for all requests: a handler gets the context of
\* the request that arrived last
ContextOfLatest(contexts, i) ==
  IF \A j \in InFlight : IsSet(contexts[j])
  THEN contexts[CHOOSE j \in InFlight : j # i][1]
  ELSE contexts[i][1]

\* the Context the framework hands a handler: the one of the request it serves
ContextOf(contexts, i) == contexts[i][1]

InitConcurrent ==
  /\ env \in {e \in Envs : e.API_BASE_URL = Undefined}
  /\ pc = [i \in InFlight |-> "idle"]
  /\ req = [i \in InFlight |-> Undefined]
  /\ err = [i \in InFlight |-> Undefined]
  /\ converted = [i \in InFlight |-> Undefined]
  /\ outcome = [i \in InFlight |-> Undefined]
  /\ response = [i \in InFlight |-> Undefined]
  /\ log = <<>>
  /\ events = [i \in InFlight |-> <<>>]
  /\ fnIn = Undefined
  /\ fnOut = Undefined

\* request i arrives and the middleware chain has populated its context
ReceiveConcurrent(i) ==
  /\ pc[i] = "idle"
  /\ \E c \in ConcurrentContexts(i) : req' = [req EXCEPT ![i] = Some(c)]
  /\ pc' = [pc EXCEPT ![i] = "handling"]
  /\ UNCHANGED <<env, err, converted, outcome, response, log, events, fnIn, fnOut>>

\* the handler of request i returns ok(c, data)
HandlerOkConcurrent(i) ==
  /\ pc[i] = "handling"
  /\ \E data \in {Null, [t |-> "object", payload |-> "user"]}, uuid \in FabricatedIds :
       /\ outcome' = [outcome EXCEPT ![i] = Some([kind |-> "ok", data |-> data])]
       /\ response' = [response EXCEPT ![i] = Some(ok(ContextOf(req, i), data, Undefined, uuid))]
  /\ log' = log \o RequestIdConsole(ContextOf(req, i))
  /\ events' = [events EXCEPT ![i] = <<"envelope", "respond">>]
  /\ pc' = [pc EXCEPT ![i] = "responded"]
  /\ UNCHANGED <<env, req, err, converted, fnIn, fnOut>>

\* the handler of request i throws
HandlerThrowsConcurrent(i) ==
  /\ pc[i] = "handling"
  /\ \E x \in ConcurrentThrown : err' = [err EXCEPT ![i] = Some(x)]
  /\ pc' = [pc EXCEPT ![i] = "thrown"]
  /\ UNCHANGED <<env, req, converted, outcome, response, log, events, fnIn, fnOut>>

\* errorHandler(err, c) for request i; the log sink is the one all requests write to
ErrorHandlerConcurrent(i) ==
  /\ pc[i] = "thrown"
  /\ \E uuid \in FabricatedIds :
       \E h \in {handleStandardError(env, ContextOf(req, i), err[i][1], uuid)} :
          /\ ~h.threw
          /\ converted' = [converted EXCEPT ![i] = Some([input |-> err[i][1],
                                                         outcome |-> h.converted])]
          /\ response' = [response EXCEPT ![i] = Some(h.response)]
          /\ log' = log \o h.log
          /\ events' = [events EXCEPT ![i] = h.events]
  /\ pc' = [pc EXCEPT ![i] = "responded"]
  /\ UNCHANGED <<env, req, err, outcome, fnIn, fnOut>>

NextConcurrent ==
  \E i \in InFlight :
    \/ ReceiveConcurrent(i)
    \/ HandlerOkConcurrent(i)
    \/ HandlerThrowsConcurrent(i)
    \/ ErrorHandlerConcurrent(i)

SpecConcurrent == InitConcurrent /\ [][NextConcurrent]_vars

-----------------------------------------------------------------------------
(* Properties                                                              *)

Body == response[1].body

\* which boundary handler produced the response
FromErrorHandler == pc = "responded" /\ IsSet(err)
FromHook == pc = "responded" /\ ~IsSet(err) /\ IsSet(outcome) /\ outcome[1].kind = "hook"
FromNotFound == pc = "responded" /\ IsSet(outcome) /\ outcome[1].kind = "notFound"

\* the converter was called and returned
Converted == IsSet(converted) /\ ~converted[1].outcome.threw
ConvertedInput == converted[1].input
ConvertedResult == converted[1].outcome.value

\* the category a thrown value resolves to, and the detail before sanitisation
ResolvedKey(x) ==
  CASE x.t = "AppError" -> x.key
    [] x.t = "ZodError" -> "validation_error"
    [] x.t = "HTTPException" -> statusToKey(x.status)
    [] OTHER -> "internal_error"

RawDetail(x) ==
  CASE x.t = "AppError" -> IF IsSet(x.detail) THEN x.detail[1] ELSE x.message
    [] x.t = "ZodError" -> "The request contains invalid data"
    [] x.t = "HTTPException" ->
         IF x.message # "" THEN x.message ELSE ProblemRegistry[statusToKey(x.status)].title
    [] x.t = "Error" -> x.message
    [] OTHER -> "Unknown error"

ExposingKeys ==
  ProblemKeys \ {"internal_error", "service_unavailable"}

\* C1: every error response of errorHandler, notFoundHandler and validationHook
\* carries an HTTP status equal to the status member of the problem in its body.
C1_StatusMatchesProblem ==
  (FromErrorHandler \/ FromHook \/ FromNotFound) =>
    /\ Body.success = FALSE
    /\ response[1].status = Body.error.status

C1_Witness ==
  /\ FromErrorHandler
  /\ err[1].t = "HTTPException"
  /\ err[1].status = 418
  /\ response[1].status = 418
  /\ Body.error.status = 418

\* C2: on every branch of toProblemDetails the detail is the branch's raw detail
\* passed through safeDetail: in production the raw detail only for a category
\* that exposes it and the generic sentence otherwise, outside production always
\* the raw detail.
C2_DetailSanitised ==
  Converted =>
    LET x == ConvertedInput
        raw == RawDetail(x)
        detail == ConvertedResult.problem.detail
    IN /\ env.NODE_ENV = "production" /\ ResolvedKey(x) \in ExposingKeys => detail = raw
       /\ env.NODE_ENV = "production" /\ ResolvedKey(x) \notin ExposingKeys =>
            detail = "An unexpected error occurred"
       /\ env.NODE_ENV # "production" => detail = raw
       /\ x = [t |-> "Error", message |-> "db password leaked"] =>
            detail = IF env.NODE_ENV = "production" THEN "An unexpected error occurred"
                     ELSE "db password leaked"

C2_Witness ==
  /\ Converted
  /\ env.NODE_ENV = "production"
  /\ ConvertedInput = [t |-> "Error", message |-> "db password leaked"]
  /\ ConvertedResult.problem.detail = "An unexpected error occurred"
  /\ FromErrorHandler
  /\ Body.error.detail = "An unexpected error occurred"

\* C3 (as stated): in production every error envelope sent through fail() by any
\* handler whose problem is internal_error or service_unavailable carries the
\* generic detail.
C3_GenericDetailInProduction ==
  (/\ pc = "responded"
   /\ env.NODE_ENV = "production"
   /\ Body.success = FALSE
   /\ \E k \in {"internal_error", "service_unavailable"} :
        Body.error.type = problemTypeUri(env, k))
    => Body.error.detail = "An unexpected error occurred"

\* C4 (as stated): success is true exactly when data is non-null and error is
\* null, false exactly when data is null and error is non-null, and exactly one
\* of data and error is non-null.
C4_ExactlyOneOfDataAndError ==
  pc = "responded" =>
    /\ Body.success = TRUE <=> (NotNullish(Body.data) /\ Body.error = Null)
    /\ Body.success = FALSE <=> (~NotNullish(Body.data) /\ Body.error # Null)
    /\ NotNullish(Body.data) # (Body.error # Null)

\* C4 (amended): success is true exactly when error is null; a fail envelope has
\* data null and error non-null; an ok envelope has error null and carries the
\* data it was given unchanged, null and undefined included; data and error are
\* never both non-null.
C4_SuccessIffErrorNull ==
  pc = "responded" =>
    /\ Body.success = TRUE <=> Body.error = Null
    /\ Body.success = FALSE => (Body.data = Null /\ Body.error # Null)
    /\ (IsSet(outcome) /\ outcome[1].kind = "ok") =>
         (Body.success = TRUE /\ Body.data = outcome[1].data)
    /\ ~(NotNullish(Body.data) /\ Body.error # Null)

C4_Witness ==
  /\ pc = "responded"
  /\ IsSet(outcome)
  /\ outcome[1].kind = "ok"
  /\ outcome[1].data = Null
  /\ Body.success = TRUE
  /\ Body.data = Null
  /\ Body.error = Null

\* C5 (as stated): toProblemDetails returns for every thrown value, without
\* throwing, a result whose key is the one ProblemKey its first-match dispatch
\* selects.
C5_ConverterTotal ==
  IsSet(converted) =>
    /\ ~converted[1].outcome.threw
    /\ ConvertedResult.key \in ProblemKeys
    /\ ConvertedResult.key = ResolvedKey(ConvertedInput)

\* the detail a category lets through
Sanitised(key, raw) ==
  IF env.NODE_ENV = "production" /\ key \notin ExposingKeys
  THEN "An unexpected error occurred"
  ELSE raw

\* C6: for every AppError e the result has key = e.key, httpStatus =
\* problem.status = e.statusOverride ?? def.status, problem.code =
\* e.codeOverride ?? def.code, detail = safeDetail(def, e.detail ?? e.message)
\* and errors = e.errors unchanged; validation gives 422/E1001 with the caller's
\* pointers, notFound("User", "123") gives 404/E1404 and its sentence,
\* invalidCredentials gives 401/E2001.
C6_AppErrorBranch ==
  (Converted /\ ConvertedInput.t = "AppError") =>
    LET e == ConvertedInput
        def == ProblemRegistry[e.key]
        r == ConvertedResult
    IN /\ r.key = e.key
       /\ r.httpStatus = (IF IsSet(e.statusOverride) THEN e.statusOverride[1] ELSE def.status)
       /\ r.problem.status = r.httpStatus
       /\ r.problem.code = (IF IsSet(e.codeOverride) THEN e.codeOverride[1] ELSE def.code)
       /\ r.problem.detail = Sanitised(e.key, IF IsSet(e.detail) THEN e.detail[1] ELSE e.message)
       /\ r.problem.errors = e.errors
       /\ e = AppErrorValidation("invalid data", <<SampleFieldError>>) =>
            /\ r.httpStatus = 422
            /\ r.problem.code = <<"E", "1", "0", "0", "1">>
            /\ r.problem.errors[1].pointer = Some(<<"#", "/", "e", "m", "a", "i", "l">>)
       /\ e = AppErrorNotFound("User", Some("123")) =>
            /\ r.httpStatus = 404
            /\ r.problem.code = <<"E", "1", "4", "0", "4">>
            /\ r.problem.detail = "User with identifier '123' was not found"
       /\ e = AppErrorInvalidCredentials =>
            /\ r.httpStatus = 401
            /\ r.problem.code = <<"E", "2", "0", "0", "1">>

C6_Witness ==
  /\ Converted
  /\ ConvertedInput.t = "AppError"
  /\ ConvertedInput.key = "not_found"
  /\ ConvertedInput.statusOverride = Some(418)
  /\ ConvertedInput.codeOverride = Some(<<"E", "3", "0", "0", "1">>)
  /\ ConvertedResult.httpStatus = 418
  /\ ConvertedResult.problem.code = <<"E", "3", "0", "0", "1">>

\* C7: for every HTTPException with status s the result has key =
\* statusToKey(s), httpStatus = problem.status = s (also when s has no category
\* of its own and the key is internal_error), the code of the key's registry
\* entry and no errors; 429 gives rate_limited and E1429.
C7_HttpExceptionBranch ==
  (Converted /\ ConvertedInput.t = "HTTPException") =>
    LET s == ConvertedInput.status
        r == ConvertedResult
    IN /\ r.key = statusToKey(s)
       /\ r.httpStatus = s
       /\ r.problem.status = s
       /\ r.problem.code = ProblemRegistry[r.key].code
       /\ r.problem.errors = <<>>
       /\ s = 429 => (r.key = "rate_limited" /\ r.problem.code = <<"E", "1", "4", "2", "9">>)
       /\ s \in {418, 999} =>
            (r.key = "internal_error" /\ r.problem.code = <<"E", "1", "5", "0", "0">>)

C7_Witness ==
  /\ Converted
  /\ ConvertedInput.t = "HTTPException"
  /\ ConvertedInput.status = 999
  /\ ConvertedResult.key = "internal_error"
  /\ ConvertedResult.httpStatus = 999
  /\ ConvertedResult.problem.status = 999

IsUnknownValue(x) == x.t \notin {"AppError", "ZodError", "HTTPException"}

UnknownShape(r) ==
  /\ r.key = "internal_error"
  /\ r.httpStatus = 500
  /\ r.problem.status = 500
  /\ r.problem.code = <<"E", "1", "5", "0", "0">>
  /\ r.problem.errors = <<>>

\* C8 (as stated): a value of none of the three classes gives internal_error,
\* 500, E1500, no errors, and detail = safeDetail(def, m) with m the value's
\* message whenever it carries one, Error instance or not, and "Unknown error"
\* only when it carries none.
C8_UnknownUsesAnyMessage ==
  (Converted /\ IsUnknownValue(ConvertedInput)) =>
    LET x == ConvertedInput
        m == IF x.t = "Error" THEN x.message
             ELSE IF x.t = "object" /\ IsSet(x.messageProp) THEN x.messageProp[1]
             ELSE "Unknown error"
    IN /\ UnknownShape(ConvertedResult)
       /\ ConvertedResult.problem.detail = Sanitised("internal_error", m)

\* C8 (amended): a value of none of the three classes gives internal_error, 500,
\* E1500, no errors, and detail = safeDetail(def, m) with m the value's message
\* when it is an Error instance and "Unknown error" for every other value, a
\* non-Error object that carries a message included.
C8_UnknownUsesErrorMessage ==
  (Converted /\ IsUnknownValue(ConvertedInput)) =>
    LET x == ConvertedInput
        m == IF x.t = "Error" THEN x.message ELSE "Unknown error"
    IN /\ UnknownShape(ConvertedResult)
       /\ ConvertedResult.problem.detail = Sanitised("internal_error", m)

C8_Witness ==
  /\ Converted
  /\ ConvertedInput = [t |-> "object", messageProp |-> Some("message of a plain object")]
  /\ env.NODE_ENV = "development"
  /\ ConvertedResult.key = "internal_error"
  /\ ConvertedResult.problem.detail = "Unknown error"

HookAdapterApplied ==
  /\ IsSet(fnOut)
  /\ fnOut[1].fn = "zodToFieldErrorsWithDomainCodes"
  /\ ~fnOut[1].result.threw

\* the code the marker alone determines
MarkerCode(params) ==
  IF /\ IsSet(params)
     /\ IsSet(params[1].ecode)
     /\ params[1].ecode[1].t = "string"
     /\ Len(params[1].ecode[1].s) = 5
     /\ params[1].ecode[1].s[1] = "E"
     /\ \A i \in 2..5 : params[1].ecode[1].s[i] \in
          {"0", "1", "2", "3", "4", "5", "6", "7", "8", "9"}
  THEN params[1].ecode[1].s
  ELSE <<"E", "1", "0", "0", "1">>

DifferOnlyInMessages(a, b) ==
  /\ Len(a) = Len(b)
  /\ \A i \in 1..Len(a) : [b[i] EXCEPT !.message = a[i].message] = a[i]

CodesOf(fieldErrors) == [i \in 1..Len(fieldErrors) |-> fieldErrors[i].code]

Applied(fn) == IsSet(fnOut) /\ fnIn[1].fn = fn

StatusTable ==
  (400 :> "bad_request") @@ (401 :> "unauthorized") @@ (403 :> "forbidden") @@
  (404 :> "not_found") @@ (409 :> "conflict") @@ (413 :> "payload_too_large") @@
  (422 :> "validation_error") @@ (429 :> "rate_limited") @@ (502 :> "bad_gateway") @@
  (503 :> "service_unavailable") @@ (504 :> "gateway_timeout")

\* C11: statusToKey returns, for every number, the key of the eleven-row table
\* and internal_error for every other value (999, 500, 418, 200, negatives),
\* and touches nothing else.
C11_StatusTable ==
  Applied("statusToKey") =>
    LET s == fnIn[1].status
    IN /\ fnOut[1].key = (IF s \in DOMAIN StatusTable THEN StatusTable[s] ELSE "internal_error")
       /\ fnOut[1].key \in ProblemKeys
       /\ log = <<>> /\ response = Undefined

C11_Witness ==
  /\ Applied("statusToKey")
  /\ fnIn[1].status = 413
  /\ fnOut[1].key = "payload_too_large"

\* ^E<d>\d{3}$ for the range digit d
InRange(code, d) ==
  /\ Len(code) = 5
  /\ code[1] = "E"
  /\ code[2] = d
  /\ \A i \in 3..5 : code[i] \in {"0", "1", "2", "3", "4", "5", "6", "7", "8", "9"}

RangeDigit ==
  [REGISTRY |-> "1", AUTH |-> "2", SIGNING |-> "3", COMPANY |-> "4", SOAP |-> "5"]

\* every code of every table, in the order the collision test collects them
AllCodes ==
  ObjectValues(AUTH_CODES) \o ObjectValues(SIGNING_CODES)
    \o ObjectValues(COMPANY_CODES) \o ObjectValues(SOAP_CODES)

RegistryCodes == {ProblemRegistry[k].code : k \in ProblemKeys}

\* C12: every base-registry code matches ^E1\d{3}$, every AUTH code ^E2\d{3}$,
\* SIGNING ^E3\d{3}$, COMPANY ^E4\d{3}$, SOAP ^E5\d{3}$, and no code occurs
\* twice in the union of the base registry and the four tables.
C12_CodesDisjointAndInRange ==
  Applied("code") =>
    /\ InRange(fnOut[1].code, RangeDigit[fnIn[1].table])
    /\ \A i, j \in 1..Len(AllCodes) : AllCodes[i] = AllCodes[j] => i = j
    /\ Cardinality(RegistryCodes) = Cardinality(ProblemKeys)
    /\ \A i \in 1..Len(AllCodes) : AllCodes[i] \notin RegistryCodes

C12_Witness ==
  /\ Applied("code")
  /\ fnIn[1].table = "AUTH"
  /\ AUTH_CODES[fnIn[1].index][1] = "INSUFFICIENT_PERMISSIONS"
  /\ fnOut[1].code = <<"E", "2", "0", "1", "0">>

\* the envelope builder was applied, and the meta it built
EnvelopeBuilt == IsSet(fnOut) /\ fnIn[1].fn \in {"buildMeta", "ok", "fail"}
BuiltMeta == IF fnIn[1].fn = "buildMeta" THEN fnOut[1].meta ELSE fnOut[1].response.body.meta

LowerHex ==
  {"0", "1", "2", "3", "4", "5", "6", "7", "8", "9", "a", "b", "c", "d", "e", "f"}

\* version-traceid-parentid-flags, lower-case hex of widths 2, 32, 16, 2
MatchesTraceparent(h) ==
  /\ Len(h) = 2 + 1 + 32 + 1 + 16 + 1 + 2
  /\ h[3] = "-" /\ h[36] = "-" /\ h[53] = "-"
  /\ \A i \in (1..2) \cup (4..35) \cup (37..52) \cup (54..55) : h[i] \in LowerHex

AcceptedTraceparent(h) ==
  /\ IsSet(h)
  /\ MatchesTraceparent(h[1])
  /\ <<h[1][1], h[1][2]>> # <<"f", "f">>
  /\ \E i \in 4..35 : h[1][i] # "0"
  /\ \E i \in 37..52 : h[1][i] # "0"

\* C13: meta.traceId and meta.spanId are both present exactly when the
\* traceparent header matches the pattern with a version other than "ff" and
\* trace and parent ids that are not all zeros; then they are the header's
\* trace-id and parent-id; in every other case both are absent.
C13_TraceIdsIffValidHeader ==
  EnvelopeBuilt =>
    LET h == fnIn[1].c.traceparent
        meta == BuiltMeta
    IN /\ (IsSet(meta.traceId) /\ IsSet(meta.spanId)) <=> AcceptedTraceparent(h)
       /\ IsSet(meta.traceId) <=> IsSet(meta.spanId)
       /\ AcceptedTraceparent(h) =>
            /\ meta.traceId = Some([i \in 1..32 |-> h[1][i + 3]])
            /\ meta.spanId = Some([i \in 1..16 |-> h[1][i + 36]])
       /\ h = Some(TraceparentValid) =>
            /\ meta.traceId = Some(<<"0", "a", "f", "7", "6", "5", "1", "9", "1", "6", "c",
                                     "d", "4", "3", "d", "d", "8", "4", "4", "8", "e", "b",
                                     "2", "1", "1", "c", "8", "0", "3", "1", "9", "c">>)
            /\ meta.spanId = Some(<<"b", "7", "a", "d", "6", "b", "7", "1", "6", "9", "2",
                                    "0", "3", "3", "3", "1">>)
       /\ h = Some(TraceparentZeroTrace) => (meta.traceId = Undefined /\ meta.spanId = Undefined)

C13_Witness ==
  /\ EnvelopeBuilt
  /\ fnIn[1].fn = "fail"
  /\ fnIn[1].c.traceparent = Some(TraceparentValid)
  /\ BuiltMeta.traceId = Some(ValidTraceId)
  /\ BuiltMeta.spanId = Some(ValidSpanId)

\* ok or fail was applied; the same call on the request without the header
EnvelopeSent == IsSet(fnOut) /\ fnIn[1].fn \in {"ok", "fail"}
WithoutHeader(c) == [c EXCEPT !.traceparent = Undefined]
SentWithoutHeader ==
  IF fnIn[1].fn = "ok"
  THEN ok(WithoutHeader(fnIn[1].c), fnIn[1].data, fnIn[1].status, fnIn[1].uuid)
  ELSE fail(WithoutHeader(fnIn[1].c), fnIn[1].problem, fnIn[1].httpStatus, fnIn[1].uuid)

\* C14: whatever the traceparent header holds, ok and fail return, and the
\* status, success flag, data and error of the response are those of the same
\* call without the header; a malformed or reserved header leaves the whole
\* response as it is without the header.
C14_HeaderNeverChangesOutcome ==
  EnvelopeSent =>
    LET sent == fnOut[1].response
        plain == SentWithoutHeader
    IN /\ sent.status = plain.status
       /\ sent.headers = plain.headers
       /\ sent.body.success = plain.body.success
       /\ sent.body.data = plain.body.data
       /\ sent.body.error = plain.body.error
       /\ sent.body.meta.requestId = plain.body.meta.requestId
       /\ ~AcceptedTraceparent(fnIn[1].c.traceparent) => sent = plain

C14_Witness ==
  /\ EnvelopeSent
  /\ fnIn[1].fn = "fail"
  /\ fnIn[1].c.traceparent =
       Some(Traceparent(<<"f", "f">>, ValidTraceId, ValidSpanId, <<"0", "1">>))
  /\ fnOut[1].response = SentWithoutHeader
  /\ fnOut[1].response.status = 404
  /\ fnOut[1].response.body.meta.traceId = Undefined

RECURSIVE Flatten(_)
\* the concatenation of a sequence of strings
Flatten(parts) == IF parts = <<>> THEN <<>> ELSE Head(parts) \o Flatten(Tail(parts))

\* a string with every character replaced by its image under f
MapChars(str, f(_)) == Flatten([i \in 1..Len(str) |-> f(str[i])])

Rfc6901(ch) == IF ch = "~" THEN <<"~", "0">> ELSE IF ch = "/" THEN <<"~", "1">> ELSE <<ch>>

\* C15: escapeJsonPointerToken(s) is String(s) with every "~" replaced by "~0"
\* and every "/" by "~1" in one simultaneous substitution, all other characters
\* unchanged: "~/" gives "~0~1", "/~" gives "~1~0"; the result holds no "/" and
\* every "~" in it is followed by "0" or "1".
C15_EscapeIsSimultaneousSubstitution ==
  Applied("escapeJsonPointerToken") =>
    LET token == fnIn[1].token
        str == IF token.t = "number" THEN NumToStr(token.n) ELSE token.s
        out == fnOut[1].escaped
    IN /\ out = MapChars(str, Rfc6901)
       /\ \A i \in 1..Len(out) : out[i] # "/"
       /\ \A i \in 1..Len(out) :
            out[i] = "~" => (i < Len(out) /\ out[i + 1] \in {"0", "1"})
       /\ str = <<"~", "/">> => out = <<"~", "0", "~", "1">>
       /\ str = <<"/", "~">> => out = <<"~", "1", "~", "0">>
       /\ token = NumSeg(12) => out = <<"1", "2">>

C15_Witness ==
  /\ Applied("escapeJsonPointerToken")
  /\ fnIn[1].token = StrSeg(<<"~", "/">>)
  /\ fnOut[1].escaped = <<"~", "0", "~", "1">>

NonSymbols(path) == SelectSeq(path, LAMBDA seg : seg.t # "symbol")
SegText(seg) == IF seg.t = "number" THEN NumToStr(seg.n) ELSE seg.s
CountOf(ch, str) == Cardinality({i \in 1..Len(str) : str[i] = ch})

\* "#" followed, for each segment in order, by "/" and the segment's image under f
PointerOf(segments, f(_)) ==
  <<"#">> \o Flatten([i \in 1..Len(segments) |-> <<"/">> \o MapChars(SegText(segments[i]), f)])

\* toJsonPointerFragment was applied and returned a pointer
FragmentReturned == Applied("toJsonPointerFragment") /\ ~fnOut[1].result.threw

Rfc6901ThenPercent(ch) ==
  CASE ch = "~" -> <<"~", "0">>
    [] ch = "/" -> <<"~", "1">>
    [] ch = " " -> <<"%", "2", "0">>
    [] ch = "%" -> <<"%", "2", "5">>
    [] ch = "#" -> <<"%", "2", "3">>
    [] ch = "?" -> <<"%", "3", "F">>
    [] OTHER -> <<ch>>

\* C17: with uriEncode = true each segment is RFC 6901-escaped and then
\* percent-encoded: space, "%", "#", "?" appear as %20, %25, %23, %3F, the
\* characters ! ' ( ) * and the sequences ~0 and ~1 appear as they are, and
\* after the leading "#" there is no raw space, "#" or "?" and no "%" that does
\* not start one of the four encodings; with uriEncode false or omitted nothing
\* is percent-encoded.
C17_PercentEncodingAfterEscaping ==
  FragmentReturned =>
    LET kept == NonSymbols(fnIn[1].path)
        out == fnOut[1].result.value
    IN /\ fnIn[1].uriEncode = Some(TRUE) =>
            /\ out = PointerOf(kept, Rfc6901ThenPercent)
            /\ \A i \in 2..Len(out) : out[i] \notin {" ", "#", "?"}
            /\ \A i \in 2..Len(out) :
                 out[i] = "%" =>
                   (i + 2 <= Len(out) /\
                    <<out[i + 1], out[i + 2]>> \in
                      {<<"2", "0">>, <<"2", "5">>, <<"2", "3">>, <<"3", "F">>})
            /\ fnIn[1].path = <<StrSeg(<<"!", "'", "(", ")", "*">>)>> =>
                 out = <<"#", "/", "!", "'", "(", ")", "*">>
       /\ fnIn[1].uriEncode # Some(TRUE) => out = PointerOf(kept, Rfc6901)

C17_Witness ==
  /\ Applied("toJsonPointerFragment")
  /\ fnIn[1].uriEncode = Some(TRUE)
  /\ fnIn[1].path = <<StrSeg(<<"c", "%", "d">>), StrSeg(<<"~", "/">>)>>
  /\ fnOut[1].result =
       Return(<<"#", "/", "c", "%", "2", "5", "d", "/", "~", "0", "~", "1">>)

\* errorHandler was called with the thrown value
ErrorHandled == IsSet(err) /\ pc \in {"responded", "crashed"}

\* the lines the boundary handler itself wrote (they carry the error context;
\* the line about a missing request id comes from the envelope builder)
HandlerLines == SelectSeq(log, LAMBDA l : IsSet(l.context))

LevelTable ==
  [k \in ProblemKeys |->
     IF k \in {"validation_error", "not_found", "unauthorized", "forbidden", "conflict",
               "bad_request"} THEN "info"
     ELSE IF k \in {"payload_too_large", "rate_limited"} THEN "warn"
     ELSE "error"]

Positions(step) == {i \in 1..Len(events) : events[i] = step}

\* C20 (as stated): on every handling path the Problem Converter runs at most
\* once, at most one envelope is built, a log line is written after the
\* conversion and before the response is returned, and the request ends in one
\* of the two terminal states Responded(success) and Responded(error).
C20_OneConversionOneEnvelopeResponded ==
  /\ Cardinality(Positions("convert")) <= 1
  /\ Cardinality(Positions("envelope")) <= 1
  /\ \A l \in Positions("log") :
       /\ \A k \in Positions("convert") : k < l
       /\ \A r \in Positions("respond") : l < r
  /\ pc \in {"idle", "handling", "thrown", "responded"}
  /\ pc = "responded" =>
       (Cardinality(Positions("respond")) = 1 /\ events[Len(events)] = "respond")

LoggerLines == SelectSeq(log, LAMBDA l : l.sink = "logger")

\* C22: every request reaching notFoundHandler gets a 404 error
\* envelope carrying the not_found problem of the registry (status 404, code
\* E1404, its title and type, instance the request path, a detail naming the
\* method and the path), and a log line is emitted at the level the registry
\* configures for not_found before the response is returned.
C22_NotFoundRespondsAndLogs ==
  FromNotFound =>
    LET c == req[1]
        def == ProblemRegistry["not_found"]
    IN /\ response[1].status = 404
       /\ Body.success = FALSE
       /\ Body.error.status = 404
       /\ Body.error.code = <<"E", "1", "4", "0", "4">>
       /\ Body.error.title = "Not found"
       /\ Body.error.type = getProblemBaseUrl(env) \o "/not-found"
       /\ Body.error.instance = c.path
       /\ Body.error.detail = "Route '" \o c.method \o " " \o c.path \o "' was not found"
       /\ Len(LoggerLines) = 1
       /\ LoggerLines[1].level = def.logLevel
       /\ events = <<"log", "envelope", "respond">>

C22_Witness ==
  /\ FromNotFound
  /\ req[1].method = "OPTIONS"
  /\ req[1].path = "/health/ready"
  /\ req[1].logger = Some(LogLevels)
  /\ Body.error.detail = "Route 'OPTIONS /health/ready' was not found"
  /\ Len(LoggerLines) = 1

\* the request needs a credential: not OPTIONS and not a public path
Protected(c) ==
  /\ c.method # "OPTIONS"
  /\ c.path \notin {"/", "/health", "/health/live", "/health/ready", "/metrics", "/doc",
                    "/reference"}
  /\ c.path # "/reference/index.html"

\* the header is missing, is not a Bearer credential, carries no token, or
\* carries a token that fails verification
Unauthenticated(c) ==
  c.authorization \notin {Some("Bearer signed.jwt.token"), Some("Bearer  signed.jwt.token ")}

\* authMiddleware has run on the request
AuthRan == IsSet(req) /\ pc \notin {"idle", "authenticating"}

\* C23: a protected request whose Authorization header is missing, not a
\* Bearer credential, empty of a token or failing verification never reaches
\* the downstream handler, and errorHandler answers it with a 401 error
\* envelope (success false, error.status 401, error.code E1401); OPTIONS
\* requests and public paths always reach the downstream handler.
C23_UnauthenticatedGets401 ==
  AuthRan =>
    /\ (Protected(req[1]) /\ Unauthenticated(req[1])) =>
         /\ pc \in {"thrown", "responded"}
         /\ ~IsSet(outcome)
         /\ events[Len(events)] # "next"
         /\ pc = "responded" =>
              /\ response[1].status = 401
              /\ Body.success = FALSE
              /\ Body.error.status = 401
              /\ Body.error.code = <<"E", "1", "4", "0", "1">>
    /\ ~Protected(req[1]) =>
         /\ ~IsSet(err)
         /\ pc \in {"handling", "responded"}
         /\ pc = "responded" => (IsSet(outcome) /\ Body.success = TRUE)

C23_Witness ==
  /\ pc = "responded"
  /\ IsSet(err)
  /\ req[1].method = "POST"
  /\ req[1].path = "/graphql"
  /\ req[1].authorization = Some("Bearer forged.jwt.token")
  /\ response[1].status = 401
  /\ Body.error.code = <<"E", "1", "4", "0", "1">>

\* the probe that answered, and the checks it ran
FromProbe(kind) == pc = "responded" /\ IsSet(outcome) /\ outcome[1].kind = kind
ProbeChecks == outcome[1].checks
DatabaseDown == \E i \in 1..Len(ProbeChecks) :
                  ProbeChecks[i].name = "database" /\ ProbeChecks[i].status = "DOWN"
AggregateNotUp == \E i \in 1..Len(ProbeChecks) : ProbeChecks[i].status # "UP"

\* a 503 error envelope of the service_unavailable category carrying the checks
Is503WithChecks ==
  /\ response[1].status = 503
  /\ Body.success = FALSE
  /\ Body.data = Null
  /\ Body.error.status = 503
  /\ Body.error.code = <<"E", "1", "5", "0", "3">>
  /\ Body.error.ext.checks = Some(ProbeChecks)

Is200Success ==
  /\ response[1].status = 200
  /\ Body.success = TRUE
  /\ Body.error = Null

RetryAfter30 == <<"Retry-After", <<"3", "0">>>> \in response[1].headers
AnyRetryAfter == \E h \in response[1].headers : h[1] = "Retry-After"

\* C24: readyHandler answers a 503 error envelope with code E1503 and the checks
\* extension exactly when the database check is DOWN, healthHandler exactly
\* when the aggregate status is not UP, and a 200 success envelope otherwise,
\* whether the database query resolves, rejects or loses the race against the
\* timeout; Retry-After: 30 is present exactly on the 503.
C24_ProbeStatusAndRetryAfter ==
  /\ FromProbe("ready") =>
       /\ IF DatabaseDown THEN Is503WithChecks ELSE Is200Success
       /\ Is503WithChecks <=> DatabaseDown
  /\ FromProbe("health") =>
       /\ IF AggregateNotUp THEN Is503WithChecks ELSE Is200Success
       /\ Is503WithChecks <=> AggregateNotUp
  /\ (FromProbe("ready") \/ FromProbe("health")) =>
       /\ RetryAfter30 <=> response[1].status = 503
       /\ AnyRetryAfter <=> response[1].status = 503

C24_Witness ==
  /\ FromProbe("health")
  /\ ProbeChecks[1].status = "UP"
  /\ ProbeChecks[2].status = "DOWN"
  /\ response[1].status = 503
  /\ RetryAfter30

\* one of the two adapters was applied to the issue list fnIn
AdapterApplied ==
  IsSet(fnOut) /\ fnOut[1].fn \in {"zodToFieldErrors", "zodToFieldErrorsWithDomainCodes"}

\* the segments of a path as text, joined by "."
DotJoined(path) ==
  Flatten([i \in 1..Len(path) |->
             (IF i = 1 THEN <<>> ELSE <<".">>) \o SegText(path[i])])

\* C25: the validation adapter maps issues to field errors one-to-one and in
\* order: for every issue list of length n the output has length n, and for
\* every index i the pointer is toJsonPointerFragment of the issue's path, the
\* message is the issue's message and the field is the dot-joined path (absent
\* for an empty path).
C25_FieldErrorsOneToOneInOrder ==
  AdapterApplied =>
    LET issues == fnIn[1]
        r == fnOut[1].result
    IN /\ ~r.threw
       /\ Len(r.value) = Len(issues)
       /\ \A i \in 1..Len(issues) :
            /\ r.value[i].pointer = Some(toJsonPointerFragment(issues[i].path, FALSE).value)
            /\ r.value[i].pointer = Some(PointerOf(NonSymbols(issues[i].path), Rfc6901))
            /\ r.value[i].message = issues[i].message
            /\ r.value[i].field =
                 IF issues[i].path = <<>> THEN Undefined
                 ELSE Some(DotJoined(issues[i].path))

\* C26: the status-to-key table and the registry are mutually consistent: the
\* entry stored under every key k has key field k, statusToKey of its status
\* is k (internal_error's 500 reaches it through the default), and no two
\* entries share a status.
C26_RegistryAndStatusTableConsistent ==
  Applied("getProblemDef") =>
    LET k == fnIn[1].key
        def == fnOut[1].def
    IN /\ def.key = k
       /\ statusToKey(def.status) = k
       /\ getProblemDefByStatus(def.status) = def
       /\ k # "internal_error" => def.status \in DOMAIN StatusTable
       /\ k = "internal_error" => (def.status = 500 /\ 500 \notin DOMAIN StatusTable)
       /\ \A other \in ProblemKeys \ {k} : getProblemDef(other).status # def.status
       /\ Cardinality({getProblemDef(j).status : j \in ProblemKeys}) = Cardinality(ProblemKeys)

C26_Witness ==
  /\ Applied("getProblemDef")
  /\ fnIn[1].key = "internal_error"
  /\ fnOut[1].def.status = 500
  /\ statusToKey(500) = "internal_error"

\* what request i gets when it is the only request: the handler's result on
\* its own context and its own thrown value or data
AloneResponse(i) ==
  IF IsSet(err[i])
  THEN handleStandardError(env, req[i][1], err[i][1], "uuid-1").response
  ELSE ok(req[i][1], outcome[i][1].data, Undefined, "uuid-1")
AloneLines(i) ==
  IF IsSet(err[i])
  THEN handleStandardError(env, req[i][1], err[i][1], "uuid-1").log
  ELSE <<>>

\* the lines of the shared sink that belong to request i
LinesOf(i) ==
  SelectSeq(log, LAMBDA l : IsSet(l.context) /\ l.context[1].requestId = req[i][1].requestId)

\* C27 (state part): a request that was answered while another was in flight
C27_AnsweredAsAlone ==
  \A i \in InFlight :
    pc[i] = "responded" =>
      /\ response[i][1].status = AloneResponse(i).status
      /\ response[i][1].body.success = AloneResponse(i).body.success
      /\ response[i][1].body.error = AloneResponse(i).body.error
      /\ response[i][1].body.data = AloneResponse(i).body.data
      /\ response[i][1].body.meta.requestId = req[i][1].requestId[1]
      /\ LinesOf(i) = AloneLines(i)
      /\ IsSet(err[i]) =>
           /\ Len(LinesOf(i)) = 1
           /\ LinesOf(i)[1].level = LevelTable[ResolvedKey(err[i][1])]

C28_TypeAndInstanceOfEveryError ==
  (pc = "responded" /\ Body.success = FALSE) =>
    /\ Body.error.instance = req[1].path
    /\ \E k \in ProblemKeys : Body.error.type = problemTypeUri(env, k)
    /\ \A k \in ProblemKeys :
         ProblemRegistry[k].code = Body.error.code => Body.error.type = problemTypeUri(env, k)

\* errorHandler answered the request
ErrorAnswered == IsSet(err) /\ pc = "responded"

StringPath(path) == \A i \in 1..Len(path) : path[i].t = "string"
ComparedPaths ==
  SeqsUpTo({StrSeg(<<"/">>), StrSeg(<<"~", "1">>), StrSeg(<<"~", "0", "~", "1">>),
            StrSeg(<<"~", "/">>), StrSeg(<<>>), StrSeg(<<"c", "%", "d">>),
            StrSeg(<<"c", "%", "2", "5", "d">>)}, MaxPathLen)

RECURSIVE SplitTokens(_, _)
\* the "/"-separated tokens of the text after the leading "#"; cur is the
\* token being read
SplitTokens(str, cur) ==
  IF str = <<>> THEN <<cur>>
  ELSE IF Head(str) = "/" THEN <<cur>> \o SplitTokens(Tail(str), <<>>)
  ELSE SplitTokens(Tail(str), Append(cur, Head(str)))

\* the tokens of a pointer: none for "#", one per "/" otherwise
TokensOf(ptr) == IF Len(ptr) = 1 THEN <<>> ELSE SplitTokens(SubSeq(ptr, 3, Len(ptr)), <<>>)

RECURSIVE ReplacePair(_, _, _)
\* every "~" followed by digit replaced by ch, left to right
ReplacePair(str, digit, ch) ==
  IF str = <<>> THEN <<>>
  ELSE IF Len(str) >= 2 /\ str[1] = "~" /\ str[2] = digit
  THEN <<ch>> \o ReplacePair(SubSeq(str, 3, Len(str)), digit, ch)
  ELSE <<Head(str)>> \o ReplacePair(Tail(str), digit, ch)

\* "~1" to "/", then "~0" to "~"
Unescaped(token) == ReplacePair(ReplacePair(token, "1", "/"), "0", "~")

RECURSIVE PercentDecoded(_)
\* %20, %25, %23, %3F read back as the characters they stand for
PercentDecoded(str) ==
  IF str = <<>> THEN <<>>
  ELSE IF Len(str) >= 3 /\ str[1] = "%"
  THEN (CASE <<str[2], str[3]>> = <<"2", "0">> -> <<" ">>
          [] <<str[2], str[3]>> = <<"2", "5">> -> <<"%">>
          [] <<str[2], str[3]>> = <<"2", "3">> -> <<"#">>
          [] <<str[2], str[3]>> = <<"3", "F">> -> <<"?">>
          [] OTHER -> SubSeq(str, 1, 3))
       \o PercentDecoded(SubSeq(str, 4, Len(str)))
  ELSE <<Head(str)>> \o PercentDecoded(Tail(str))

\* toJsonPointerFragment returned a pointer for a path of string segments
StringFragmentReturned == FragmentReturned /\ StringPath(fnIn[1].path)

\* no other path of string segments has the pointer that was returned
NoOtherPathHasPointer ==
  \A other \in ComparedPaths :
    other # fnIn[1].path =>
      LET r == toJsonPointerFragment(other, IsSet(fnIn[1].uriEncode) /\ fnIn[1].uriEncode[1])
      IN r.threw \/ r.value # fnOut[1].result.value

\* C30 (as stated): toJsonPointerFragment is injective on paths of string
\* segments, without and with uriEncode: two different paths never produce
\* the same pointer, and unescaping each "/"-separated token ("~1" to "/",
\* then "~0" to "~") recovers the original segments.
C30_InjectiveAndUnescapeRecovers ==
  StringFragmentReturned =>
    LET path == fnIn[1].path
        tokens == TokensOf(fnOut[1].result.value)
    IN /\ NoOtherPathHasPointer
       /\ Len(tokens) = Len(path)
       /\ \A i \in 1..Len(path) : Unescaped(tokens[i]) = path[i].s

\* C30 (amended): toJsonPointerFragment is injective on paths of string
\* segments, without and with uriEncode, wherever it returns; without
\* uriEncode unescaping each "/"-separated token recovers the original
\* segments, and with uriEncode it recovers them once the token's percent
\* escapes have been decoded first.
C30_InjectiveAndDecodeRecovers ==
  StringFragmentReturned =>
    LET path == fnIn[1].path
        tokens == TokensOf(fnOut[1].result.value)
    IN /\ NoOtherPathHasPointer
       /\ Len(tokens) = Len(path)
       /\ \A i \in 1..Len(path) :
            IF fnIn[1].uriEncode = Some(TRUE)
            THEN Unescaped(PercentDecoded(tokens[i])) = path[i].s
            ELSE Unescaped(tokens[i]) = path[i].s

C30_Witness ==
  /\ StringFragmentReturned
  /\ fnIn[1].uriEncode = Some(TRUE)
  /\ fnIn[1].path = <<StrSeg(<<"c", "%", "d">>), StrSeg(<<"~", "1">>)>>
  /\ fnOut[1].result.value = <<"#", "/", "c", "%", "2", "5", "d", "/", "~", "0", "1">>
  /\ Unescaped(TokensOf(fnOut[1].result.value)[1]) = <<"c", "%", "2", "5", "d">>

====
